---- MODULE Spec2Model ----
(***************************************************************************)
(* anime-search-api: the parallel search orchestrator (src/src/core.rs),   *)
(* the per-source search and extraction engine (src/src/engine.rs) and     *)
(* the HTTP capability it calls (src/src/http_client.rs).                  *)
(*                                                                         *)
(* Strings the code inspects (hrefs, URLs, selectors, node text) are       *)
(* sequences of one-character strings; strings it only carries (rule       *)
(* names, colours, error messages) are TLA+ strings.                       *)
(***************************************************************************)
EXTENDS Integers, Sequences, FiniteSets, TLC

(***************************************************************************)
(* Bounds of the model.                                                    *)
(***************************************************************************)
\* Size of the loaded rule list the request selects from.
MaxRules == 2
\* Capacity of the event channel, scaled down from mpsc::channel(100)
\* (core.rs:28) so that a full channel is reachable with MaxRules rules.
ChanCap == 1

(***************************************************************************)
(* Option and Result values.                                               *)
(***************************************************************************)
None == <<>>
Some(x) == <<x>>
is_some(o) == o # <<>>
Ok(v) == [ok |-> TRUE, val |-> v]
Err(e) == [ok |-> FALSE, err |-> e]

(***************************************************************************)
(* Character-sequence helpers (str::starts_with, trim, trim_end_matches).  *)
(***************************************************************************)
starts_with(s, p) == Len(s) >= Len(p) /\ SubSeq(s, 1, Len(p)) = p

RECURSIVE trim_end_matches(_, _)
trim_end_matches(s, c) ==
    IF s # <<>> /\ s[Len(s)] = c
    THEN trim_end_matches(SubSeq(s, 1, Len(s) - 1), c)
    ELSE s

RECURSIVE trim_start(_)
trim_start(s) ==
    IF s # <<>> /\ s[1] = " " THEN trim_start(Tail(s)) ELSE s

trim(s) == trim_start(trim_end_matches(s, " "))

HttpPrefix == <<"h", "t", "t", "p", ":", "/", "/">>
HttpsPrefix == <<"h", "t", "t", "p", "s", ":", "/", "/">>
HttpsColon == <<"h", "t", "t", "p", "s", ":">>
HttpColon == <<"h", "t", "t", "p", ":">>

(***************************************************************************)
(* engine.rs: normalize_url, normalize_xpath, extract_base_url.            *)
(***************************************************************************)
\* Faulty variant: a protocol-relative href is returned as it is.
normalize_url_without_scheme(href, base_url) ==
    IF starts_with(href, HttpPrefix) \/ starts_with(href, HttpsPrefix)
    THEN href
    ELSE IF starts_with(href, <<"/", "/">>)
    THEN href
    ELSE IF starts_with(href, <<"/">>)
    THEN trim_end_matches(base_url, "/") \o href
    ELSE trim_end_matches(base_url, "/") \o <<"/">> \o href

\* Faulty variant: only one trailing slash of the base is removed.
normalize_url_one_slash(href, base_url) ==
    LET base == IF base_url # <<>> /\ base_url[Len(base_url)] = "/"
                THEN SubSeq(base_url, 1, Len(base_url) - 1) ELSE base_url
    IN IF starts_with(href, HttpPrefix) \/ starts_with(href, HttpsPrefix)
       THEN href
       ELSE IF starts_with(href, <<"/", "/">>)
       THEN HttpsColon \o href
       ELSE IF starts_with(href, <<"/">>)
       THEN base \o href
       ELSE base \o <<"/">> \o href

normalize_url(href, base_url) ==
    IF starts_with(href, HttpPrefix) \/ starts_with(href, HttpsPrefix)
    THEN href
    ELSE IF starts_with(href, <<"/", "/">>)
    THEN HttpsColon \o href
    ELSE IF starts_with(href, <<"/">>)
    THEN trim_end_matches(base_url, "/") \o href
    ELSE trim_end_matches(base_url, "/") \o <<"/">> \o href

\* Faulty variant: every selector that does not start with "//" is prefixed.
normalize_xpath_prefixing_dot_paths(xpath0) ==
    LET xpath == trim(xpath0) IN
    IF starts_with(xpath, <<"/", "/">>)
    THEN xpath
    ELSE IF starts_with(xpath, <<"/">>)
    THEN <<"/">> \o xpath
    ELSE IF xpath # <<>>
    THEN <<".", "/", "/">> \o xpath
    ELSE xpath

\* Faulty variant: a selector starting with a single "/" is returned as it is.
normalize_xpath_keeping_root(xpath0) ==
    LET xpath == trim(xpath0) IN
    IF starts_with(xpath, <<"/">>) \/ starts_with(xpath, <<".", "/">>)
    THEN xpath
    ELSE IF xpath # <<>>
    THEN <<".", "/", "/">> \o xpath
    ELSE xpath

normalize_xpath(xpath0) ==
    LET xpath == trim(xpath0) IN
    IF starts_with(xpath, <<"/", "/">>) \/ starts_with(xpath, <<".", "/">>)
       \/ starts_with(xpath, <<".", "/", "/">>)
    THEN xpath
    ELSE IF starts_with(xpath, <<"/">>)
    THEN <<"/">> \o xpath
    ELSE IF xpath # <<>>
    THEN <<".", "/", "/">> \o xpath
    ELSE xpath

\* The relative form built before a sub-query under a context node
\* (the same three-way choice in extract_text_from_node,
\* extract_href_from_node and parse_episodes_xpath).
relative_xpath(xpath) ==
    IF starts_with(xpath, <<"/", "/">>)
    THEN <<".">> \o xpath
    ELSE IF starts_with(xpath, <<".", "/">>) \/ starts_with(xpath, <<".", "/", "/">>)
    THEN xpath
    ELSE <<".", "/", "/">> \o xpath

\* url::Url::parse(detail_url): the URLs of the model are "http:" or
\* "https:" URLs or have no scheme at all (no other ":" occurs in them, and
\* no port, user info, query or fragment).  For the two schemes the parser
\* skips every "/" after the colon and reads the host up to the next "/";
\* an empty host and a URL without scheme are parse errors.
RECURSIVE host_end(_, _)
host_end(u, i) ==
    IF i > Len(u) \/ u[i] = "/" THEN i - 1 ELSE host_end(u, i + 1)

RECURSIVE host_start(_, _)
host_start(u, i) ==
    IF i <= Len(u) /\ u[i] = "/" THEN host_start(u, i + 1) ELSE i

url_scheme(u) ==
    IF starts_with(u, HttpsColon) THEN SubSeq(HttpsColon, 1, 5)
    ELSE IF starts_with(u, HttpColon) THEN SubSeq(HttpColon, 1, 4)
    ELSE <<>>

url_host(u) ==
    LET start == host_start(u, Len(url_scheme(u)) + 2) IN
    SubSeq(u, start, host_end(u, start))

url_parses(u) == url_scheme(u) # <<>> /\ url_host(u) # <<>>

extract_base_url(detail_url, rule_base_url) ==
    IF url_parses(detail_url)
    THEN url_scheme(detail_url) \o <<":", "/", "/">> \o url_host(detail_url)
    ELSE trim_end_matches(rule_base_url, "/")

(***************************************************************************)
(* Rules.  Rule(i) is the i-th rule of the loaded, name-sorted rule list   *)
(* (rules.rs).  The list's rules differ in what the code branches on:      *)
(* colour, GET or form POST, whether the chapter selectors are declared,   *)
(* a trailing slash on base_url, and which selectors libxml rejects.       *)
(***************************************************************************)
Digits == <<"1", "2", "3", "4", "5", "6", "7", "8", "9">>
RuleNames == <<"rule1", "rule2", "rule3", "rule4", "rule5", "rule6", "rule7",
               "rule8", "rule9">>
\* "https://x<i>"
Origin(i) == <<"h", "t", "t", "p", "s", ":", "/", "/", "x", Digits[i]>>

Rule(i) ==
    [name |-> RuleNames[i],
     color |-> IF i % 2 = 0 THEN "red" ELSE "blue",
     tags |-> <<"anime", Digits[i]>>,
     base_url |-> IF i % 2 = 0 THEN Origin(i) \o <<"/">> ELSE Origin(i),
     use_post |-> (i % 3 = 0),
     \* whether url::Url::parse accepts the templated search URL
     search_url_parses |-> (i % 6 # 0),
     search_list |-> <<"/", "/", "l", "i">>,
     search_name |-> <<"a">>,
     search_result |-> <<"a">>,
     chapter_roads |-> IF i % 2 = 0 THEN <<"/", "/", "u", "l">> ELSE <<>>,
     chapter_result |-> IF i % 2 = 0 THEN <<"a">> ELSE <<>>,
     \* the selectors the XPath evaluator rejects as invalid expressions
     invalid |-> IF i % 4 = 0 THEN {"search_name"} ELSE {}]

(***************************************************************************)
(* The structural-evaluation capability (libxml).  A document is what the  *)
(* rule's selectors match in it: Context::evaluate is Err for a selector   *)
(* the evaluator rejects and otherwise the matched nodes in document order.*)
(***************************************************************************)
evaluate(rule, selector, xpath, hits) ==
    IF selector \in rule.invalid \/ xpath = <<>> THEN Err("xpath") ELSE Ok(hits)

get_node_text(content) == trim(content)

\* Faulty variant: a search_name the evaluator rejects yields an empty name
\* instead of the list node's own text.
extract_text_from_node_without_fallback(rule, node, xpath) ==
    LET r == evaluate(rule, "search_name", relative_xpath(xpath), node.name_hits) IN
    IF ~r.ok THEN <<>>
    ELSE IF r.val # <<>>
    THEN get_node_text(r.val[1])
    ELSE get_node_text(node.content)

\* node: [content, name_hits, result_hits]; name_hits are the contents of
\* the nodes search_name matches under the list node.
extract_text_from_node(rule, node, xpath) ==
    LET r == evaluate(rule, "search_name", relative_xpath(xpath), node.name_hits) IN
    IF r.ok /\ r.val # <<>>
    THEN get_node_text(r.val[1])
    ELSE get_node_text(node.content)

\* result_hits: the nodes search_result matches under the list node, each
\* [href, data_href] (attributes, None when absent); a_href: what
\* ".//a/@href" matches under the list node.
extract_href_from_node(rule, node, xpath) ==
    LET r == evaluate(rule, "search_result", relative_xpath(xpath), node.result_hits) IN
    IF r.ok /\ r.val # <<>>
    THEN LET target == r.val[1] IN
         IF is_some(target.href) THEN target.href[1]
         ELSE IF is_some(target.data_href) THEN target.data_href[1]
         ELSE IF node.a_href # <<>> THEN node.a_href[1]
         ELSE <<>>
    ELSE <<>>

\* Faulty variant: each item is put in front of the items found so far,
\* and a node without a name is kept.
RECURSIVE collect_items_unordered(_, _, _, _)
collect_items_unordered(rule, nodes, name_xpath, result_xpath) ==
    IF nodes = <<>> THEN <<>>
    ELSE LET node == Head(nodes)
             name == extract_text_from_node(rule, node, name_xpath)
             href == extract_href_from_node(rule, node, result_xpath)
             rest == collect_items_unordered(rule, Tail(nodes), name_xpath, result_xpath)
         IN IF href = <<>>
            THEN rest
            ELSE rest \o <<[name |-> name,
                            url |-> normalize_url(href, rule.base_url),
                            tags |-> None,
                            episodes |-> None]>>

RECURSIVE collect_items(_, _, _, _)
collect_items(rule, nodes, name_xpath, result_xpath) ==
    IF nodes = <<>> THEN <<>>
    ELSE LET node == Head(nodes)
             name == extract_text_from_node(rule, node, name_xpath)
             href == extract_href_from_node(rule, node, result_xpath)
             rest == collect_items(rule, Tail(nodes), name_xpath, result_xpath)
         IN IF name = <<>> \/ href = <<>>
            THEN rest
            ELSE <<[name |-> name,
                    url |-> normalize_url(href, rule.base_url),
                    tags |-> None,
                    episodes |-> None]>> \o rest

\* html: [parses, list_nodes, roads]
parse_search_results_xpath(rule, html) ==
    IF ~html.parses THEN Err(<<"HTML parse failed">>)
    ELSE LET list_xpath == normalize_xpath(rule.search_list)
             name_xpath == normalize_xpath(rule.search_name)
             result_xpath == normalize_xpath(rule.search_result)
             list_nodes == evaluate(rule, "search_list", list_xpath, html.list_nodes)
         IN IF ~list_nodes.ok THEN Err(<<"invalid list XPath", list_xpath>>)
            ELSE Ok(collect_items(rule, list_nodes.val, name_xpath, result_xpath))

RECURSIVE collect_episodes(_, _)
collect_episodes(ep_nodes, url_base) ==
    IF ep_nodes = <<>> THEN <<>>
    ELSE LET ep_node == Head(ep_nodes)
             name == trim(ep_node.content)
             href == IF is_some(ep_node.href) THEN ep_node.href[1] ELSE <<>>
             rest == collect_episodes(Tail(ep_nodes), url_base)
         IN IF name = <<>> \/ href = <<>>
            THEN rest
            ELSE <<[name |-> name, url |-> normalize_url(href, url_base)]>> \o rest

\* Faulty variant: a road without valid episodes is pushed like any other.
RECURSIVE collect_roads_keeping_empty(_, _, _, _, _)
collect_roads_keeping_empty(rule, road_nodes, index, result_xpath, url_base) ==
    IF index > Len(road_nodes) THEN <<>>
    ELSE LET eps_result == evaluate(rule, "chapter_result",
                                    relative_xpath(result_xpath), road_nodes[index])
             episodes == IF eps_result.ok
                         THEN collect_episodes(eps_result.val, url_base)
                         ELSE <<>>
         IN <<[name |-> IF Len(road_nodes) > 1
                        THEN Some(<<"road", Digits[index]>>)
                        ELSE None,
               episodes |-> episodes]>>
            \o collect_roads_keeping_empty(rule, road_nodes, index + 1,
                                           result_xpath, url_base)

RECURSIVE collect_roads(_, _, _, _, _)
collect_roads(rule, road_nodes, index, result_xpath, url_base) ==
    IF index > Len(road_nodes) THEN <<>>
    ELSE LET road_node == road_nodes[index]
             eps_result == evaluate(rule, "chapter_result",
                                    relative_xpath(result_xpath), road_node)
             episodes == IF eps_result.ok
                         THEN collect_episodes(eps_result.val, url_base)
                         ELSE <<>>
             rest == collect_roads(rule, road_nodes, index + 1, result_xpath, url_base)
         IN IF episodes # <<>>
            THEN <<[name |-> IF Len(road_nodes) > 1
                             THEN Some(<<"road", Digits[index]>>)
                             ELSE None,
                    episodes |-> episodes]>> \o rest
            ELSE rest

parse_episodes_xpath(rule, html, base_url) ==
    IF ~html.parses THEN Err(<<"HTML parse failed">>)
    ELSE LET roads_xpath == normalize_xpath(rule.chapter_roads)
             result_xpath == normalize_xpath(rule.chapter_result)
             roads_nodes == evaluate(rule, "chapter_roads", roads_xpath, html.roads)
             url_base == extract_base_url(base_url, rule.base_url)
         IN IF ~roads_nodes.ok THEN Err(<<"invalid roads XPath", roads_xpath>>)
            ELSE Ok(collect_roads(rule, roads_nodes.val, 1, result_xpath, url_base))

(***************************************************************************)
(* http_client.rs.  A response is what the remote end does with one        *)
(* request: [send, status, text], send in {"ok", "timeout", "error"},      *)
(* text the body (Ok) or a failure while reading it (Err).                 *)
(***************************************************************************)
\* HttpClientError, each variant as the message its #[error] attribute
\* displays (the form in which the engine's e.to_string() hands it on).
Timeout == <<"request timed out">>
RequestFailed(msg) == <<"request failed", msg>>
BadStatus(code) == <<"unexpected status code", code>>

is_success(status) == status >= 200 /\ status <= 299

get(resp) ==
    IF resp.send # "ok"
    THEN Err(IF resp.send = "timeout" THEN Timeout ELSE RequestFailed("send"))
    ELSE IF ~is_success(resp.status)
    THEN Err(BadStatus(resp.status))
    ELSE Ok(resp)

get_text(resp) ==
    LET response == get(resp) IN
    IF ~response.ok THEN response
    ELSE IF response.val.text.ok THEN Ok(response.val.text.val)
    ELSE Err(RequestFailed("body"))

post_form_text(resp) ==
    IF resp.send # "ok"
    THEN Err(IF resp.send = "timeout" THEN Timeout ELSE RequestFailed("send"))
    ELSE IF ~is_success(resp.status)
    THEN Err(BadStatus(resp.status))
    ELSE IF resp.text.ok THEN Ok(resp.text.val)
    ELSE Err(RequestFailed("body"))

(***************************************************************************)
(* engine.rs: the per-source search.  A site is what the source answers:   *)
(* [search, detail], the response to the search request and the response   *)
(* to the detail request of the k-th item.                                 *)
(***************************************************************************)
MaxEpisodeItems == 5

Min(a, b) == IF a < b THEN a ELSE b

execute_search(rule, site) ==
    LET html == IF rule.use_post
                THEN IF ~rule.search_url_parses
                     THEN Err(<<"relative URL without a base">>)
                     ELSE post_form_text(site.search)
                ELSE get_text(site.search)
    IN IF ~html.ok THEN html
       ELSE parse_search_results_xpath(rule, html.val)

fetch_episodes_for(rule, detail_url, resp) ==
    IF rule.chapter_roads = <<>> \/ rule.chapter_result = <<>>
    THEN Ok(<<>>)
    ELSE LET html == get_text(resp) IN
         IF ~html.ok THEN html
         ELSE parse_episodes_xpath(rule, html.val, detail_url)

with_episodes(rule, item, resp) ==
    LET r == fetch_episodes_for(rule, item.url, resp) IN
    IF r.ok /\ r.val # <<>>
    THEN [item EXCEPT !.episodes = Some(r.val)]
    ELSE item

\* Faulty variant: episodes are fetched for every item of the list.
max_items_uncapped(items) == Len(items)

max_items(items) == Min(MaxEpisodeItems, Len(items))

has_chapters(rule) == rule.chapter_roads # <<>> /\ rule.chapter_result # <<>>

execute_search_with_episodes(rule, site) ==
    LET found == execute_search(rule, site) IN
    IF ~found.ok THEN found
    ELSE IF has_chapters(rule)
    THEN LET items == found.val
         IN Ok([k \in 1..Len(items) |->
                  IF k <= max_items(items)
                  THEN with_episodes(rule, items[k], site.detail[k])
                  ELSE items[k]])
    ELSE found

\* PlatformSearchResult and its two constructors (crate::types).
with_items(items) == [items |-> items, count |-> Len(items), error |-> None]
with_error(msg) == [items |-> <<>>, count |-> 0, error |-> Some(msg)]

\* Faulty variant: a failed search is swallowed into an empty success.
search_with_rule_swallowing(rule, site) ==
    LET r == execute_search(rule, site) IN
    with_items(IF r.ok THEN r.val ELSE <<>>)

search_with_rule(rule, site) ==
    LET r == execute_search(rule, site) IN
    IF r.ok THEN with_items(r.val) ELSE with_error(r.err)

search_with_rule_and_episodes(rule, site) ==
    LET r == execute_search_with_episodes(rule, site) IN
    IF r.ok THEN with_items(r.val) ELSE with_error(r.err)

(***************************************************************************)
(* The sources' answers the model draws from.                              *)
(***************************************************************************)
NodeA == [content |-> <<"x">>,
          name_hits |-> <<<<" ", "A", " ">>>>,
          result_hits |-> <<[href |-> Some(<<"/", "v", "/", "1">>), data_href |-> None]>>,
          a_href |-> <<>>]
NodeNoName == [content |-> <<"x">>,
               name_hits |-> <<<<" ">>>>,
               result_hits |-> <<[href |-> Some(<<"/", "v", "/", "3">>), data_href |-> None]>>,
               a_href |-> <<>>]

Page(list_nodes) == [parses |-> TRUE, list_nodes |-> list_nodes, roads |-> <<>>]
Detail(roads) == [parses |-> TRUE, list_nodes |-> <<>>, roads |-> roads]
Unparsable == [parses |-> FALSE, list_nodes |-> <<>>, roads |-> <<>>]

Answer(html) == [send |-> "ok", status |-> 200, text |-> Ok(html)]

SearchResponses ==
    { [send |-> "timeout", status |-> 0, text |-> Err("none")],
      [send |-> "error", status |-> 0, text |-> Err("none")],
      [send |-> "ok", status |-> 404, text |-> Err("none")],
      Answer(Unparsable),
      Answer(Page(<<>>)),
      Answer(Page(<<NodeNoName, NodeA>>)) }

Ep(content, href) == [content |-> content, href |-> href]

DetailResponses ==
    { [send |-> "timeout", status |-> 0, text |-> Err("none")],
      Answer(Detail(<< <<Ep(<<"1">>, Some(<<"/", "p", "/", "1">>))>>,
                       <<Ep(<<" ">>, Some(<<"/", "p", "/", "2">>))>> >>)) }

NodeCount(resp) == IF resp.text.ok THEN Len(resp.text.val.list_nodes) ELSE 0

Sites ==
    UNION { { [search |-> r, detail |-> d] : d \in [1..NodeCount(r) -> DetailResponses] }
            : r \in SearchResponses }

(***************************************************************************)
(* core.rs: the events and their wire form.                                *)
(***************************************************************************)
InitEvent(total) == [type |-> "Init", total |-> total]
ProgressEvent(progress) == [type |-> "Progress", progress |-> progress]
ResultEvent(progress, result) ==
    [type |-> "Result", progress |-> progress, result |-> result]
DoneEvent == [type |-> "Done", done |-> TRUE]

\* serde_json::to_string of a StreamEvent: one JSON object per event, the
\* variant told by which fields are present.
to_json(event) ==
    CASE event.type = "Init" -> [total |-> event.total]
      [] event.type = "Progress" -> [progress |-> event.progress]
      [] event.type = "Result" -> [progress |-> event.progress, result |-> event.result]
      [] event.type = "Done" -> [done |-> event.done]

format_event(event) == [json |-> to_json(event), end |-> "\n"]

\* What a reader of the stream sees in one line.
IsInit(line) == DOMAIN line.json = {"total"}
IsProgress(line) == DOMAIN line.json = {"progress"}
IsResult(line) == DOMAIN line.json = {"progress", "result"}
IsDone(line) == DOMAIN line.json = {"done"}
IsRuleEvent(line) == IsProgress(line) \/ IsResult(line)

(***************************************************************************)
(* updater.rs and rules.rs.  The rules directory holds one file per rule   *)
(* name and the local index.json; the remote repository publishes an       *)
(* index and one file per rule.  A rule file is told apart by whether it   *)
(* is the one the process started with or a downloaded one, and by whether *)
(* it parses as a Rule.                                                    *)
(***************************************************************************)
\* Most entries of the remote index.
MaxIndex == 2

FileNames == <<"a", "b">>
\* (version, lastUpdate) of an index entry: an older and a newer stamp of
\* one version, and a second version.
Older == <<"v1", 1>>
Current == <<"v1", 2>>
Newer == <<"v2", 2>>
IndexItem(name, edition) ==
    [name |-> name, version |-> edition[1], last_update |-> edition[2]]
\* The remote repository lists any name any number of times.
RemoteItems == {IndexItem(FileNames[n], e) : n \in DOMAIN FileNames, e \in {Current, Newer}}
Indexes(max_len) == UNION {[1..n -> RemoteItems] : n \in 0..max_len}

\* index.json: its entries, or a file that is missing or does not parse as
\* a list of entries.
IndexFile(items) == [readable |-> TRUE, items |-> items]
Unreadable == [readable |-> FALSE, items |-> <<>>]

\* read_local_index().get(name): the map is filled in file order, so the
\* last entry of a name is the one it keeps.
read_local_index(file, name) ==
    IF ~file.readable THEN None
    ELSE LET hits == {p \in DOMAIN file.items : file.items[p].name = name} IN
         IF hits = {} THEN None
         ELSE Some(file.items[CHOOSE p \in hits : \A q \in hits : q <= p])

\* Faulty variant: an entry with the same stamp counts as newer.
need_update_on_equal_stamp(local_item, remote_item) ==
    \/ ~is_some(local_item)
    \/ local_item[1].version # remote_item.version
    \/ local_item[1].last_update <= remote_item.last_update

\* updater.rs:143-150
need_update(local_item, remote_item) ==
    \/ ~is_some(local_item)
    \/ local_item[1].version # remote_item.version
    \/ local_item[1].last_update < remote_item.last_update

\* What happens to one remote rule that needs an update: download_rule
\* fails, save_rule fails, or the downloaded text is written.
Outcomes == {"download_failed", "save_failed", "saved"}

Shipped == [from |-> "shipped", is_rule |-> TRUE]
Junk == [from |-> "shipped", is_rule |-> FALSE]
Downloaded == [from |-> "remote", is_rule |-> TRUE]

EmptyResult == [total |-> 0, updated |-> 0, added |-> 0, failed |-> 0, details |-> <<>>]

\* The locals of update_rules while it walks the remote index, with the
\* downloads it requested and the rule files it wrote.
StartRun(files, n) ==
    [result |-> [EmptyResult EXCEPT !.total = n],
     updated_index |-> <<>>,
     files |-> files,
     requested |-> <<>>,
     written |-> <<>>,
     failed_names |-> {}]

\* Faulty variant: the remote entry is kept in the index even when its
\* download or save failed.
check_rule_keeping_remote(acc, local_item, remote_item, outcome) ==
    LET name == remote_item.name
        detail(action) == [name |-> name, action |-> action]
    IN IF ~need_update(local_item, remote_item)
       THEN [acc EXCEPT !.updated_index = Append(@, remote_item)]
       ELSE IF outcome = "saved"
       THEN [acc EXCEPT
               !.requested = Append(@, name),
               !.written = Append(@, name),
               !.files[name] = Some(Downloaded),
               !.result.updated = IF is_some(local_item) THEN @ + 1 ELSE @,
               !.result.added = IF is_some(local_item) THEN @ ELSE @ + 1,
               !.result.details =
                   Append(@, detail(IF is_some(local_item) THEN "updated" ELSE "added")),
               !.updated_index = Append(@, remote_item)]
       ELSE [acc EXCEPT
               !.requested = Append(@, name),
               !.failed_names = @ \cup {name},
               !.result.failed = @ + 1,
               !.result.details = Append(@, detail("failed")),
               !.updated_index = Append(@, remote_item)]

\* updater.rs:140-208, one turn of the loop
check_rule(acc, local_item, remote_item, outcome) ==
    LET name == remote_item.name
        detail(action) == [name |-> name, action |-> action]
    IN IF ~need_update(local_item, remote_item)
       THEN [acc EXCEPT !.updated_index = Append(@, remote_item)]
       ELSE IF outcome = "download_failed"
       THEN [acc EXCEPT
               !.requested = Append(@, name),
               !.failed_names = @ \cup {name},
               !.result.failed = @ + 1,
               !.result.details = Append(@, detail("failed")),
               !.updated_index = IF is_some(local_item)
                                 THEN Append(@, local_item[1])
                                 ELSE @]
       ELSE IF outcome = "save_failed"
       THEN [acc EXCEPT
               !.requested = Append(@, name),
               !.failed_names = @ \cup {name},
               !.result.failed = @ + 1,
               !.result.details = Append(@, detail("failed"))]
       ELSE [acc EXCEPT
               !.requested = Append(@, name),
               !.written = Append(@, name),
               !.files[name] = Some(Downloaded),
               !.result.updated = IF is_some(local_item) THEN @ + 1 ELSE @,
               !.result.added = IF is_some(local_item) THEN @ ELSE @ + 1,
               !.result.details =
                   Append(@, detail(IF is_some(local_item) THEN "updated" ELSE "added")),
               !.updated_index = Append(@, remote_item)]

RECURSIVE check_rules(_, _, _, _, _)
check_rules(acc, local_file, remote_index, outcomes, i) ==
    IF i > Len(remote_index) THEN acc
    ELSE check_rules(check_rule(acc,
                                read_local_index(local_file, remote_index[i].name),
                                remote_index[i], outcomes[i]),
                     local_file, remote_index, outcomes, i + 1)

\* Faulty variant: the local index is rewritten (emptied) even when the
\* remote index could not be fetched.
update_rules_clearing_index(files, local_file, fetched, remote_index, outcomes, index_saved) ==
    IF ~fetched
    THEN [files |-> files,
          local_file |-> IndexFile(<<>>),
          result |-> [EmptyResult EXCEPT
                        !.details = <<[name |-> "index", action |-> "failed"]>>],
          requested |-> <<>>, written |-> <<>>, failed_names |-> {},
          index_written |-> TRUE]
    ELSE LET acc == check_rules(StartRun(files, Len(remote_index)), local_file,
                                remote_index, outcomes, 1)
         IN [files |-> acc.files,
             local_file |-> IF index_saved THEN IndexFile(acc.updated_index) ELSE local_file,
             result |-> acc.result,
             requested |-> acc.requested, written |-> acc.written,
             failed_names |-> acc.failed_names,
             index_written |-> index_saved]

\* updater.rs:115-222.  fetched: fetch_remote_index returned Ok;
\* outcomes[i]: what happens to the i-th remote rule if it needs an update;
\* index_saved: save_local_index returned Ok.
update_rules(files, local_file, fetched, remote_index, outcomes, index_saved) ==
    IF ~fetched
    THEN [files |-> files,
          local_file |-> local_file,
          result |-> [EmptyResult EXCEPT
                        !.details = <<[name |-> "index", action |-> "failed"]>>],
          requested |-> <<>>, written |-> <<>>, failed_names |-> {},
          index_written |-> FALSE]
    ELSE LET acc == check_rules(StartRun(files, Len(remote_index)), local_file,
                                remote_index, outcomes, 1)
         IN [files |-> acc.files,
             local_file |-> IF index_saved THEN IndexFile(acc.updated_index) ELSE local_file,
             result |-> acc.result,
             requested |-> acc.requested, written |-> acc.written,
             failed_names |-> acc.failed_names,
             index_written |-> index_saved]

\* rules.rs:23-64: the files that parse as a Rule, sorted by name.
load_all_rules(files) ==
    SelectSeq([n \in DOMAIN FileNames |->
                 [name |-> FileNames[n], file |-> files[FileNames[n]]]],
              LAMBDA r : is_some(r.file) /\ r.file[1].is_rule)

(***************************************************************************)
(* State.                                                                  *)
(***************************************************************************)
VARIABLES
    rules_dir,       \* the rule files of the rules directory, by name
    local_index,     \* rules/index.json
    remote,          \* the index the remote repository publishes
    RULES,           \* the Lazy static of rules.rs, None until first access
    last,            \* the last update_rules run: its result and its I/O
    rules,           \* Vec<Arc<Rule>> handed to search_stream_with_rules_options
    fetch_episodes,  \* the fetch_episodes argument
    orch,            \* where execute_parallel_search is
    idx,             \* index of its spawn loop / join loop
    completed,       \* the shared AtomicUsize
    task,            \* per rule: [pc, answered, result, current] of the spawned task
    chan,            \* lines buffered in the mpsc channel
    rx,              \* the receiver: "open", "dropped" or "ended" (saw end of stream)
    delivered,       \* lines the consumer of the stream has received
    call             \* one call of an engine or handler function under check

ProcessVars == <<rules_dir, local_index, remote, RULES, last>>

vars == <<rules, fetch_episodes, orch, idx, completed, task, chan, rx, delivered,
          call, ProcessVars>>

\* No update has run yet.
NoRun == [ran |-> FALSE, complete |-> FALSE, failed_names |-> {}]

\* The rules directory and the loader are left alone while a stream or a
\* function call is explored.
ProcessIdle ==
    /\ rules_dir = [n \in {} |-> None]
    /\ local_index = Unreadable
    /\ remote = <<>>
    /\ RULES = None
    /\ last = NoRun

\* No function call is under check while a stream is explored.
NoCall == [op |-> "none"]

total == Len(rules)
Tasks == 1..Len(rules)

\* A task's locals before its search has returned; answered records how the
\* source answered the search request, [send, status].
NoResult == [items |-> <<>>, count |-> 0, error |-> None]
NoAnswer == [send |-> "none", status |-> 0]

\* Rule lists a request can select: the loaded list filtered by name keeps
\* the list's order (main.rs, search_handler).
RECURSIVE Selections(_)
Selections(n) ==
    IF n = 0 THEN {<<>>}
    ELSE LET shorter == Selections(n - 1) IN
         shorter \cup {Append(sel, Rule(n)) : sel \in shorter}

Init ==
    /\ rules \in Selections(MaxRules)
    /\ fetch_episodes \in BOOLEAN
    /\ orch = "init"
    /\ idx = 0
    /\ completed = 0
    /\ task = [i \in 1..Len(rules) |->
                 [pc |-> "unspawned", answered |-> NoAnswer, result |-> NoResult,
                  current |-> 0]]
    /\ chan = <<>>
    /\ rx = "open"
    /\ delivered = <<>>
    /\ call = NoCall
    /\ ProcessIdle

(***************************************************************************)
(* tx.send(line).await: fails at once when the receiver is gone, waits     *)
(* while the channel is full, and otherwise buffers the line.              *)
(***************************************************************************)
\* Faulty variant: the channel takes a line whether or not it has room.
CanSend_unbounded == TRUE

\* Faulty variant: a send waits for room even when the receiver is gone.
CanSend_waiting_on_closed == rx = "open" /\ Len(chan) < ChanCap

CanSend == rx # "open" \/ Len(chan) < ChanCap
send(line) == IF rx = "open" THEN Append(chan, line) ELSE chan

\* Faulty variant: Done is sent right after the spawn loop, without the join.
AfterSpawn_without_join(i) == IF i <= total THEN "spawn" ELSE "done"

\* Faulty variant: only the first handle is awaited.
AfterJoin_first_only(i) == "done"

\* Faulty variant: a joined task that failed makes the orchestrator return.
AfterJoin_aborting(i) ==
    IF is_some(task[i - 1].result.error) THEN "returned"
    ELSE IF i <= total THEN "join" ELSE "done"

\* The loop a finished loop body leads to, skipping loops with nothing to do.
AfterSpawn(i) == IF i <= total THEN "spawn" ELSE IF total > 0 THEN "join" ELSE "done"
AfterJoin(i) == IF i <= total THEN "join" ELSE "done"

(***************************************************************************)
(* execute_parallel_search.                                                *)
(***************************************************************************)
\* Faulty variant: the result of the Init send is ignored.
SendInit_ignoring_error ==
    /\ orch = "init"
    /\ CanSend
    /\ chan' = send(format_event(InitEvent(total)))
    /\ orch' = AfterSpawn(1)
    /\ idx' = 1
    /\ UNCHANGED <<ProcessVars, call, rules, fetch_episodes, completed, task, rx, delivered>>

\* core.rs:50-53
SendInit ==
    /\ orch = "init"
    /\ CanSend
    /\ chan' = send(format_event(InitEvent(total)))
    /\ orch' = IF rx = "open" THEN AfterSpawn(1) ELSE "returned"
    /\ idx' = 1
    /\ UNCHANGED <<ProcessVars, call, rules, fetch_episodes, completed, task, rx, delivered>>

\* core.rs:58-103, one iteration
Spawn ==
    /\ orch = "spawn"
    /\ task' = [task EXCEPT ![idx].pc = "search"]
    /\ orch' = AfterSpawn(idx + 1)
    /\ idx' = IF idx + 1 <= total THEN idx + 1 ELSE 1
    /\ UNCHANGED <<ProcessVars, call, rules, fetch_episodes, completed, chan, rx, delivered>>

\* Faulty variant: the join waits for a successful task only.
Join_successful_only ==
    /\ orch = "join"
    /\ task[idx].pc = "finished"
    /\ ~is_some(task[idx].result.error)
    /\ orch' = AfterJoin(idx + 1)
    /\ idx' = idx + 1
    /\ UNCHANGED <<ProcessVars, call, rules, fetch_episodes, completed, task, chan, rx, delivered>>

\* Faulty variant: the join's error is propagated, so a panicked task ends
\* the orchestrator before the Done send.
Join_propagating_panic ==
    /\ orch = "join"
    /\ task[idx].pc \in {"finished", "panicked"}
    /\ orch' = IF task[idx].pc = "panicked" THEN "returned" ELSE AfterJoin(idx + 1)
    /\ idx' = idx + 1
    /\ UNCHANGED <<ProcessVars, call, rules, fetch_episodes, completed, task, chan, rx, delivered>>

\* core.rs:106-108, one iteration: handle.await is Ok for a task that ran
\* to its end and Err(JoinError) for one that panicked, and "let _" drops
\* either.
Join ==
    /\ orch = "join"
    /\ task[idx].pc \in {"finished", "panicked"}
    /\ orch' = AfterJoin(idx + 1)
    /\ idx' = idx + 1
    /\ UNCHANGED <<ProcessVars, call, rules, fetch_episodes, completed, task, chan, rx, delivered>>

\* core.rs:111-112
SendDone ==
    /\ orch = "done"
    /\ CanSend
    /\ chan' = send(format_event(DoneEvent))
    /\ orch' = "finished"
    /\ UNCHANGED <<ProcessVars, call, rules, fetch_episodes, idx, completed, task, rx, delivered>>

(***************************************************************************)
(* The task spawned for one rule (core.rs:63-100).                         *)
(***************************************************************************)
\* core.rs:64-68
Search(i) ==
    /\ task[i].pc = "search"
    /\ \E site \in Sites :
         task' = [task EXCEPT
                    ![i].pc = "count",
                    ![i].answered = [send |-> site.search.send,
                                     status |-> site.search.status],
                    ![i].result = IF fetch_episodes
                                  THEN search_with_rule_and_episodes(rules[i], site)
                                  ELSE search_with_rule(rules[i], site)]
    /\ UNCHANGED <<ProcessVars, call, rules, fetch_episodes, orch, idx, completed, chan, rx, delivered>>

\* Faulty variant: the counter is read and written in two steps, so the
\* tasks that are at the increment together all take the same value.
Count_lost_update(i) ==
    /\ task[i].pc = "count"
    /\ completed' = completed + 1
    /\ task' = [j \in Tasks |->
                 IF task[j].pc = "count"
                 THEN [task[j] EXCEPT !.pc = "send", !.current = completed + 1]
                 ELSE task[j]]
    /\ UNCHANGED <<ProcessVars, call, rules, fetch_episodes, orch, idx, chan, rx, delivered>>

\* core.rs:69
Count(i) ==
    /\ task[i].pc = "count"
    /\ completed' = completed + 1
    /\ task' = [task EXCEPT ![i].pc = "send", ![i].current = completed + 1]
    /\ UNCHANGED <<ProcessVars, call, rules, fetch_episodes, orch, idx, chan, rx, delivered>>

\* Faulty variant: a Result is sent only when there are items.
task_event_items_only(rule, result, current) ==
    LET progress == [completed |-> current, total |-> total] IN
    IF result.count > 0
    THEN ResultEvent(progress,
                     [name |-> rule.name,
                      color |-> IF is_some(result.error) THEN "red" ELSE rule.color,
                      tags |-> rule.tags,
                      items |-> result.items,
                      error |-> result.error])
    ELSE ProgressEvent(progress)

\* Faulty variant: the colour is always the rule's.
task_event_rule_color(rule, result, current) ==
    LET progress == [completed |-> current, total |-> total] IN
    IF result.count > 0 \/ is_some(result.error)
    THEN ResultEvent(progress,
                     [name |-> rule.name,
                      color |-> rule.color,
                      tags |-> rule.tags,
                      items |-> result.items,
                      error |-> result.error])
    ELSE ProgressEvent(progress)

\* core.rs:71-97
task_event(rule, result, current) ==
    LET progress == [completed |-> current, total |-> total] IN
    IF result.count > 0 \/ is_some(result.error)
    THEN ResultEvent(progress,
                     [name |-> rule.name,
                      color |-> IF is_some(result.error) THEN "red" ELSE rule.color,
                      tags |-> rule.tags,
                      items |-> result.items,
                      error |-> result.error])
    ELSE ProgressEvent(progress)

\* Faulty variant: events are published in rule order, so a task holds its
\* event until the tasks of all earlier rules have published theirs.
Send_in_rule_order(i) ==
    /\ task[i].pc = "send"
    /\ \A k \in 1..(i - 1) : task[k].pc = "finished"
    /\ CanSend
    /\ chan' = send(format_event(task_event(rules[i], task[i].result, task[i].current)))
    /\ task' = [task EXCEPT ![i].pc = "finished"]
    /\ UNCHANGED <<ProcessVars, call, rules, fetch_episodes, orch, idx, completed, rx, delivered>>

\* core.rs:99
Send(i) ==
    /\ task[i].pc = "send"
    /\ CanSend
    /\ chan' = send(format_event(task_event(rules[i], task[i].result, task[i].current)))
    /\ task' = [task EXCEPT ![i].pc = "finished"]
    /\ UNCHANGED <<ProcessVars, call, rules, fetch_episodes, orch, idx, completed, rx, delivered>>

(***************************************************************************)
(* The consumer of the ReceiverStream (core.rs:34).                        *)
(***************************************************************************)
SendersGone ==
    /\ orch \in {"finished", "returned"}
    /\ \A i \in Tasks : task[i].pc \in {"unspawned", "finished", "panicked"}

Recv ==
    /\ rx = "open"
    /\ chan # <<>>
    /\ delivered' = Append(delivered, Head(chan))
    /\ chan' = Tail(chan)
    /\ UNCHANGED <<ProcessVars, call, rules, fetch_episodes, orch, idx, completed, task, rx>>

RecvEnd ==
    /\ rx = "open"
    /\ chan = <<>>
    /\ SendersGone
    /\ rx' = "ended"
    /\ UNCHANGED <<ProcessVars, call, rules, fetch_episodes, orch, idx, completed, task, chan, delivered>>

\* The consumer drops the stream (client disconnected): buffered lines are lost.
DropRx ==
    /\ rx = "open"
    /\ rx' = "dropped"
    /\ chan' = <<>>
    /\ UNCHANGED <<ProcessVars, call, rules, fetch_episodes, orch, idx, completed, task, delivered>>

Next ==
    \/ SendInit
    \/ Spawn
    \/ Join
    \/ SendDone
    \/ \E i \in Tasks : Search(i)
    \/ \E i \in Tasks : Count(i)
    \/ \E i \in Tasks : Send(i)
    \/ Recv
    \/ RecvEnd
    \/ DropRx

Spec == Init /\ [][Next]_vars

\* The runtime runs every spawned task that can step, every fetch returns
\* or times out, and the consumer keeps reading while it holds the stream.
Fairness ==
    /\ WF_vars(SendInit) /\ WF_vars(Spawn) /\ WF_vars(Join) /\ WF_vars(SendDone)
    /\ \A i \in 1..MaxRules :
         /\ WF_vars(i \in Tasks /\ Search(i))
         /\ WF_vars(i \in Tasks /\ Count(i))
         /\ WF_vars(i \in Tasks /\ Send(i))
    /\ WF_vars(Recv) /\ WF_vars(RecvEnd)

FairSpec == Spec /\ Fairness

(***************************************************************************)
(* Faults.  A task can panic while it searches (the shared HTTP client is  *)
(* built with expect on first use, http_client.rs:20, and the search runs  *)
(* in libxml): the runtime unwinds the task, which drops its sender        *)
(* without a fetch_add or a send, and its JoinHandle resolves to an error. *)
(***************************************************************************)
Panic(i) ==
    /\ task[i].pc = "search"
    /\ task' = [task EXCEPT ![i].pc = "panicked"]
    /\ UNCHANGED <<ProcessVars, call, rules, fetch_episodes, orch, idx, completed, chan, rx, delivered>>

FaultNext ==
    \/ Next
    \/ \E i \in Tasks : Panic(i)

FaultSpec == Init /\ [][FaultNext]_vars

FaultFairSpec == FaultSpec /\ Fairness

(***************************************************************************)
(* The stream in emission order: what the consumer has received followed   *)
(* by what the channel still buffers.                                      *)
(***************************************************************************)
Emitted == delivered \o chan
Last(seq) == seq[Len(seq)]
Searched(i) == task[i].pc \in {"count", "send", "finished"}
Failed(i) == Searched(i) /\ is_some(task[i].result.error)
\* The places of the stream that hold the event of rule i's task: the
\* fetch-and-add gives every task its own value of current.
LinesOf(i) ==
    {p \in DOMAIN Emitted :
        IsRuleEvent(Emitted[p]) /\ Emitted[p].json.progress.completed = task[i].current}
RuleLines == {p \in DOMAIN Emitted : IsRuleEvent(Emitted[p])}

(***************************************************************************)
(* C1: the stream begins with exactly one Init whose total is the number   *)
(* of rules passed in; nothing precedes Init; Done occurs at most once and *)
(* nothing follows it; when Done has been received every sender is gone,   *)
(* so the stream closes, and a stream that closed ends with Done.          *)
(***************************************************************************)
C1_InitFirstDoneLast ==
    /\ Emitted # <<>> => IsInit(Emitted[1]) /\ Emitted[1].json.total = Len(rules)
    /\ \A p \in DOMAIN Emitted : IsInit(Emitted[p]) => p = 1
    /\ \A p \in DOMAIN Emitted : IsDone(Emitted[p]) => p = Len(Emitted)
    /\ (delivered # <<>> /\ IsDone(Last(delivered))) => chan = <<>> /\ SendersGone
    /\ rx = "ended" => Len(delivered) >= 2 /\ IsDone(Last(delivered))

C1_Witness ==
    /\ rx = "ended"
    /\ total = MaxRules
    /\ IsInit(delivered[1])
    /\ IsDone(Last(delivered))

(***************************************************************************)
(* C2: a stream read to its end carries, between Init and Done, exactly    *)
(* total events, each a Progress or a Result, exactly one for each rule;   *)
(* and at no time does the stream hold two events of one rule or an event  *)
(* of a rule whose task has not sent.                                      *)
(***************************************************************************)
C2_OneEventPerRule ==
    /\ \A i \in Tasks : Cardinality(LinesOf(i)) <= 1
    /\ \A i \in Tasks : task[i].pc # "finished" => LinesOf(i) = {}
    /\ Cardinality(RuleLines) <= total
    /\ rx = "ended" =>
         /\ Len(delivered) = total + 2
         /\ \A p \in 2..(Len(delivered) - 1) : IsRuleEvent(delivered[p])
         /\ \A i \in Tasks : \E p \in 2..(Len(delivered) - 1) : LinesOf(i) = {p}

C2_Witness ==
    /\ rx = "ended"
    /\ total = MaxRules
    /\ \E p \in DOMAIN delivered : IsProgress(delivered[p])
    /\ \E p \in DOMAIN delivered : IsResult(delivered[p])

(***************************************************************************)
(* C3: in emission order the k-th per-rule event of the stream carries     *)
(* progress.completed = k.                                                 *)
(***************************************************************************)
C3_CompletedCountsLines ==
    \A p \in DOMAIN Emitted :
        IsRuleEvent(Emitted[p]) => Emitted[p].json.progress.completed = p - 1

(***************************************************************************)
(* C4: the event immediately preceding Done carries progress.completed     *)
(* equal to total.                                                         *)
(***************************************************************************)
C4_TotalBeforeDone ==
    \A p \in DOMAIN Emitted :
        (IsDone(Emitted[p]) /\ p > 1 /\ IsRuleEvent(Emitted[p - 1]))
            => Emitted[p - 1].json.progress.completed = total

(***************************************************************************)
(* C5: the event of a finished per-rule search is a Result exactly when    *)
(* the search returned at least one item or an error; otherwise it is a    *)
(* Progress that carries the progress snapshot and nothing else.           *)
(***************************************************************************)
C5_ResultIffItemsOrError ==
    \A i \in Tasks : \A p \in LinesOf(i) :
        LET line == Emitted[p]
            result == task[i].result
        IN /\ IsResult(line) <=> (result.items # <<>> \/ is_some(result.error))
           /\ IsProgress(line) <=> (result.items = <<>> /\ ~is_some(result.error))
           /\ line.json.progress = [completed |-> task[i].current, total |-> Len(rules)]

C5_Witness ==
    /\ \E i \in Tasks : \E p \in LinesOf(i) :
          IsProgress(Emitted[p]) /\ task[i].result.items = <<>>
    /\ \E i \in Tasks : \E p \in LinesOf(i) :
          IsResult(Emitted[p]) /\ is_some(task[i].result.error)

(***************************************************************************)
(* C6 as stated: in every Result event, color is "red" exactly when the    *)
(* result carries an error.                                                *)
(***************************************************************************)
C6_RedExactlyOnError ==
    \A p \in DOMAIN Emitted :
        IsResult(Emitted[p]) =>
            (Emitted[p].json.result.color = "red" <=> is_some(Emitted[p].json.result.error))

(***************************************************************************)
(* C6 as amended: in every Result event, color is "red" when the result    *)
(* carries an error and is the rule's configured colour otherwise (which   *)
(* may itself be "red"); name and tags are those of the rule the task      *)
(* searched, items and error those its search returned.                    *)
(***************************************************************************)
C6_ResultFields ==
    \A i \in Tasks : \A p \in LinesOf(i) :
        IsResult(Emitted[p]) =>
            LET r == Emitted[p].json.result IN
            /\ is_some(r.error) => r.color = "red"
            /\ ~is_some(r.error) => r.color = rules[i].color
            /\ r.name = rules[i].name
            /\ r.tags = rules[i].tags
            /\ r.items = task[i].result.items
            /\ r.error = task[i].result.error

C6_Witness ==
    /\ \E i \in Tasks : \E p \in LinesOf(i) :
          /\ IsResult(Emitted[p])
          /\ is_some(Emitted[p].json.result.error)
          /\ rules[i].color # "red"
    /\ \E i \in Tasks : \E p \in LinesOf(i) :
          /\ IsResult(Emitted[p])
          /\ ~is_some(Emitted[p].json.result.error)
          /\ Emitted[p].json.result.color = "red"

(***************************************************************************)
(* C7: when the search of rule i has failed, the Init total is still the   *)
(* number of rules; rule i's own event is a Result carrying its error and  *)
(* no items; every other rule whose task has sent has its own event, with  *)
(* the content its own search determines; the orchestrator has not given   *)
(* up, and a stream read to its end ends with Done.                        *)
(***************************************************************************)
OwnContent(i, line) ==
    LET result == task[i].result IN
    IF result.items = <<>> /\ ~is_some(result.error)
    THEN IsProgress(line)
    ELSE /\ IsResult(line)
         /\ line.json.result.name = rules[i].name
         /\ line.json.result.items = result.items
         /\ line.json.result.error = result.error
         /\ ~is_some(result.error) => line.json.result.color = rules[i].color

C7_FailureIsolation ==
    \A i \in Tasks :
        Failed(i) =>
            /\ Emitted # <<>> => Emitted[1].json.total = Len(rules)
            /\ orch = "returned" => rx = "dropped"
            /\ \A j \in Tasks :
                 (task[j].pc = "finished" /\ rx # "dropped") =>
                     \E p \in DOMAIN Emitted : LinesOf(j) = {p} /\ OwnContent(j, Emitted[p])
            /\ \A p \in LinesOf(i) :
                 /\ IsResult(Emitted[p])
                 /\ Emitted[p].json.result.error = task[i].result.error
                 /\ Emitted[p].json.result.items = <<>>
            /\ rx = "ended" => IsDone(Last(delivered)) /\ Len(delivered) = total + 2

C7_Witness ==
    /\ rx = "ended"
    /\ \E i, j \in Tasks :
          /\ Failed(i)
          /\ task[j].result.items # <<>>
          /\ \E p \in LinesOf(j) : IsResult(Emitted[p])

(***************************************************************************)
(* C8 as stated: the orchestrator has no run that ends without the Done    *)
(* send.                                                                   *)
(***************************************************************************)
C8_NeverEndsWithoutDone == orch # "returned"

(***************************************************************************)
(* C8 as amended: the orchestrator always terminates; it ends without the  *)
(* Done send only when the receiver was already gone at the Init send,     *)
(* and then nothing was delivered; once the Init send has succeeded it     *)
(* eventually performs the Done send, whatever the searches return; and    *)
(* the consumer eventually receives Done unless it drops the stream.       *)
(***************************************************************************)
C8_DoneEventually ==
    /\ [](orch = "returned" => rx = "dropped" /\ delivered = <<>>)
    /\ [][orch' = "returned" => orch \in {"init", "returned"}]_vars
    /\ <>(\/ orch = "returned"
          \/ /\ orch = "finished"
             /\ rx = "dropped" \/ (delivered # <<>> /\ IsDone(Last(delivered))))

C8_Witness ==
    /\ orch = "finished"
    /\ total = MaxRules
    /\ \E i \in Tasks : Failed(i)
    /\ delivered # <<>> /\ IsDone(Last(delivered))

(***************************************************************************)
(* C9: once the receiver is dropped after Init was delivered, no send      *)
(* buffers anything any more, every per-rule task that is spawned still    *)
(* finishes, the completed counter reaches total, and the orchestrator     *)
(* finishes through its Done send rather than returning early.             *)
(***************************************************************************)
DroppedMidStream == rx = "dropped" /\ delivered # <<>>

C9_DropIsSilent ==
    /\ [](DroppedMidStream => chan = <<>> /\ orch # "returned")
    /\ DroppedMidStream ~>
         (/\ orch = "finished"
          /\ \A i \in Tasks : task[i].pc = "finished"
          /\ completed = total)

C9_Witness ==
    /\ DroppedMidStream
    /\ Len(delivered) < total + 2
    /\ orch = "finished"
    /\ completed = total
    /\ total = MaxRules

(***************************************************************************)
(* C10: a PlatformSearchResult returned by search_with_rule or             *)
(* search_with_rule_and_episodes never has both items and an error, and a  *)
(* transport failure (the send failed or timed out, or the status is not   *)
(* 2xx) yields an error with no items.                                     *)
(***************************************************************************)
TransportFailed(i) ==
    task[i].answered.send # "ok" \/ ~is_success(task[i].answered.status)

C10_ItemsXorError ==
    \A i \in Tasks :
        Searched(i) =>
            /\ ~(task[i].result.items # <<>> /\ is_some(task[i].result.error))
            /\ TransportFailed(i) =>
                 is_some(task[i].result.error) /\ task[i].result.items = <<>>

C10_Witness ==
    /\ \E i \in Tasks : Searched(i) /\ TransportFailed(i) /\ is_some(task[i].result.error)
    /\ \E i \in Tasks : Searched(i) /\ task[i].result.items # <<>>

(***************************************************************************)
(* Calls of the engine's functions, one call per behaviour: the initial    *)
(* state holds the call's arguments and the actions run the function.      *)
(***************************************************************************)
\* Longest tail of an href after its head, and longest selector string.
MaxTail == 3
MaxXpathLen == 4

Strings(chars, n) == UNION {[1..k -> chars] : k \in 0..n}

\* hrefs as pages carry them: absolute, protocol-relative, root-relative
\* and relative ones, and the empty one.
Hrefs(max_tail) ==
    {head \o tail : head \in {<<>>, HttpPrefix, HttpsPrefix, SubSeq(HttpPrefix, 1, 4)},
                    tail \in Strings({"/", "v"}, max_tail)}

\* base_url values of rule files; nothing checks them when a rule is loaded.
BaseUrls ==
    {Origin(1), Origin(1) \o <<"/">>, Origin(1) \o <<"/", "/">>,
     HttpPrefix \o <<"x">>, HttpsPrefix, <<"x", "1">>, <<>>}

XpathChars == {"/", ".", "a", " "}

StreamVars == <<rules, fetch_episodes, orch, idx, completed, task, chan, rx, delivered>>

\* The calls with arguments up to a size.
UrlCalls(max_tail) ==
    {[op |-> "normalize_url", pc |-> "called", href |-> h, base_url |-> b, out |-> <<>>]
       : h \in Hrefs(max_tail), b \in BaseUrls}

XpathCalls(max_len) ==
    {[op |-> "normalize_xpath", pc |-> "called", xpath |-> s, outs |-> <<>>]
       : s \in Strings(XpathChars, max_len)}

\* Longest result list of a search page.
MaxListNodes == 6

PlainNode(k) ==
    [content |-> <<"x">>,
     name_hits |-> <<<<" ", "A", Digits[k], " ">>>>,
     result_hits |-> <<[href |-> Some(<<"/", "v", "/", Digits[k]>>), data_href |-> None]>>,
     a_href |-> <<>>]

\* Result lists of usable nodes, alone or after a node that yields no item.
LongPages(max_nodes) ==
    UNION {{Page([k \in 1..n |-> PlainNode(k)]),
            Page(<<NodeNoName>> \o [k \in 1..n |-> PlainNode(k)])}
             : n \in 0..max_nodes}

LongSites(max_nodes) ==
    {[search |-> [send |-> "timeout", status |-> 0, text |-> Err("none")],
      detail |-> <<>>]}
    \cup UNION {{[search |-> Answer(page), detail |-> d]
                   : d \in [1..Len(page.list_nodes) -> DetailResponses]}
                  : page \in LongPages(max_nodes)}

\* Rules with and without the two chapter selectors, and with a roads
\* selector the evaluator rejects.
ChapterRules ==
    {Rule(1), Rule(2), [Rule(2) EXCEPT !.chapter_result = <<>>],
     [Rule(2) EXCEPT !.invalid = {"chapter_roads"}]}

SearchCalls(max_nodes) ==
    {[op |-> "execute_search_with_episodes", pc |-> "called", rule |-> r, site |-> s,
      items |-> <<>>, k |-> 0, requests |-> <<>>, out |-> <<>>]
       : r \in ChapterRules, s \in LongSites(max_nodes)}

\* Most road nodes of a detail page.
MaxRoads == 3

\* The episode nodes chapter_result matches under the r-th road node.
RoadKinds == {"none", "blank", "nohref", "one", "mixed"}
RoadOf(kind, r) ==
    CASE kind = "none" -> <<>>
      [] kind = "blank" -> <<Ep(<<" ">>, Some(<<"/", "p", "/", Digits[r]>>))>>
      [] kind = "nohref" -> <<Ep(<<"E", Digits[r]>>, None)>>
      [] kind = "one" -> <<Ep(<<" ", "E", Digits[r]>>, Some(<<"/", "p", "/", Digits[r]>>))>>
      [] kind = "mixed" -> <<Ep(<<"E", Digits[r]>>, Some(<<>>)),
                             Ep(<<"E", Digits[r], " ">>, Some(<<"/", "p", "/", Digits[r]>>)),
                             Ep(<<"F", Digits[r]>>, Some(<<"p", Digits[r]>>))>>

DetailPages(max_roads) ==
    {Unparsable}
    \cup UNION {{Detail([r \in 1..n |-> RoadOf(kinds[r], r)]) : kinds \in [1..n -> RoadKinds]}
                  : n \in 0..max_roads}

\* Rules that declare the chapter selectors: a sound one, ones whose
\* selectors the evaluator rejects, and one whose base_url has no scheme.
EpisodeRules ==
    {Rule(2),
     [Rule(2) EXCEPT !.invalid = {"chapter_result"}],
     [Rule(2) EXCEPT !.invalid = {"chapter_roads"}],
     [Rule(2) EXCEPT !.base_url = <<"x", "1">>]}

\* hrefs of the search page that became the detail URL.
DetailHrefs == {<<"/", "v">>, <<"/", "/", "c", "/", "v">>, HttpPrefix}

EpisodeCalls(max_roads) ==
    {[op |-> "parse_episodes_xpath", pc |-> "called", rule |-> r, html |-> page,
      base_url |-> normalize_url(h, r.base_url), out |-> <<>>]
       : r \in EpisodeRules, page \in DetailPages(max_roads), h \in DetailHrefs}

\* Most list nodes of a search page whose nodes differ in kind.
MaxMixedNodes == 3

\* The k-th list node of a page: with a name and an href, with a blank
\* name, without a search_result match, with an empty href, with its own
\* text and a data-href only, and with a nested link only.
NodeKinds == {"plain", "blank", "nohref", "emptyhref", "fallback", "nested"}
NodeOf(kind, k) ==
    CASE kind = "plain" -> PlainNode(k)
      [] kind = "blank" -> [PlainNode(k) EXCEPT !.name_hits = <<<<" ">>>>, !.content = <<" ">>]
      [] kind = "nohref" -> [PlainNode(k) EXCEPT !.result_hits = <<>>]
      [] kind = "emptyhref" ->
           [PlainNode(k) EXCEPT !.result_hits = <<[href |-> Some(<<>>), data_href |-> None]>>]
      [] kind = "fallback" ->
           [content |-> <<" ", "C", Digits[k]>>,
            name_hits |-> <<>>,
            result_hits |-> <<[href |-> None, data_href |-> Some(<<"d", Digits[k]>>)]>>,
            a_href |-> <<>>]
      [] kind = "nested" ->
           [PlainNode(k) EXCEPT !.result_hits = <<[href |-> None, data_href |-> None]>>,
                                !.a_href = <<<<"/", "/", "c", "/", Digits[k]>>>>]

MixedPages(max_nodes) ==
    {Unparsable}
    \cup UNION {{Page([k \in 1..n |-> NodeOf(kinds[k], k)]) : kinds \in [1..n -> NodeKinds]}
                  : n \in 0..max_nodes}

\* Rules as the list extraction tells them apart: the base_url with and
\* without a trailing slash or a scheme, and each selector rejected or not.
ListRules ==
    {Rule(1), Rule(2), Rule(4),
     [Rule(1) EXCEPT !.invalid = {"search_list"}],
     [Rule(1) EXCEPT !.invalid = {"search_result"}],
     [Rule(1) EXCEPT !.base_url = <<"x", "1">>]}

ListCalls(max_nodes) ==
    {[op |-> "parse_search_results_xpath", pc |-> "called", rule |-> r, html |-> page,
      out |-> <<>>]
       : r \in ListRules, page \in MixedPages(max_nodes)}

(***************************************************************************)
(* main.rs: search_handler.  A request is the sequence of its multipart    *)
(* fields, each [name, text], text the field's body (Ok) or a failure to   *)
(* read it (Err).  In the text of the rules field a whole rule name is one *)
(* symbol, next to "," and " "; in the episodes field "1", "0", "true"     *)
(* and "TRUE" are one symbol each.                                         *)
(***************************************************************************)
\* Most fields of a request.
MaxFields == 3

RECURSIVE split(_, _)
split(s, sep) ==
    LET at == {i \in 1..Len(s) : s[i] = sep} IN
    IF at = {} THEN <<s>>
    ELSE LET i == CHOOSE i \in at : \A j \in at : i <= j IN
         <<SubSeq(s, 1, i - 1)>> \o split(SubSeq(s, i + 1, Len(s)), sep)

to_lowercase(s) == [i \in 1..Len(s) |-> IF s[i] = "TRUE" THEN "true" ELSE s[i]]

\* The loop of main.rs:176-193 over the fields, from the locals' initial
\* values; a later field of the same name overwrites an earlier one.
RECURSIVE parse_fields(_, _)
parse_fields(fields, form) ==
    IF fields = <<>> THEN form
    ELSE LET field == Head(fields)
             text == trim(field.text.val)
             next == IF ~field.text.ok THEN form
                     ELSE CASE field.name = "anime" -> [form EXCEPT !.keyword = Some(text)]
                            [] field.name = "rules" -> [form EXCEPT !.rule_names = Some(text)]
                            [] field.name = "episodes" ->
                                 [form EXCEPT !.fetch_episodes =
                                    (text = <<"1">> \/ to_lowercase(text) = <<"true">>)]
                            [] OTHER -> form
         IN parse_fields(Tail(fields), next)

BadRequest(error) == [status |-> 400, error |-> error, stream |-> None]
\* The response that carries search_stream_with_rules_options(keyword,
\* selected_rules, fetch_episodes).
Streaming(keyword, selected_rules, fetch) ==
    [status |-> 200, error |-> "",
     stream |-> Some([keyword |-> keyword, rules |-> selected_rules,
                      fetch_episodes |-> fetch])]

\* Faulty variant: an empty selection is streamed.
search_handler_streaming_empty(fields, all_rules) ==
    LET form == parse_fields(fields, [keyword |-> None, rule_names |-> None,
                                      fetch_episodes |-> FALSE])
    IN IF form.keyword = None \/ form.keyword[1] = <<>>
       THEN BadRequest("Anime name is required")
       ELSE IF form.rule_names = None \/ form.rule_names[1] = <<>>
       THEN BadRequest("Rules are required")
       ELSE LET pieces == split(form.rule_names[1], ",")
                name_list == {trim(pieces[i]) : i \in 1..Len(pieces)}
                selected_rules == SelectSeq(all_rules, LAMBDA r : <<r.name>> \in name_list)
            IN Streaming(form.keyword[1], selected_rules, form.fetch_episodes)

search_handler(fields, all_rules) ==
    LET form == parse_fields(fields, [keyword |-> None, rule_names |-> None,
                                      fetch_episodes |-> FALSE])
    IN IF form.keyword = None \/ form.keyword[1] = <<>>
       THEN BadRequest("Anime name is required")
       ELSE IF form.rule_names = None \/ form.rule_names[1] = <<>>
       THEN BadRequest("Rules are required")
       ELSE LET pieces == split(form.rule_names[1], ",")
                name_list == {trim(pieces[i]) : i \in 1..Len(pieces)}
                selected_rules == SelectSeq(all_rules, LAMBDA r : <<r.name>> \in name_list)
            IN IF selected_rules = <<>>
               THEN BadRequest("No matching rules found")
               ELSE Streaming(form.keyword[1], selected_rules, form.fetch_episodes)

Field(name, text) == [name |-> name, text |-> text]

FormFields ==
    {Field("anime", Ok(t)) : t \in {<<>>, <<" ">>, <<" ", "k", " ">>}}
    \cup {Field("anime", Err("read"))}
    \cup {Field("rules", Ok(t)) : t \in {<<>>, <<" ">>, <<"nope">>,
                                         <<"rule2", ",", " ", "rule1">>,
                                         <<"rule1", " ", "rule2", ",">>}}
    \cup {Field("episodes", Ok(t)) : t \in {<<" ", "TRUE">>, <<"0">>}}
    \cup {Field("other", Ok(<<"k">>))}

\* get_builtin_rules(): the loaded rule list, sorted by name.
LoadedRules == {[i \in 1..n |-> Rule(i)] : n \in 0..MaxRules}

HandlerCalls(max_fields) ==
    {[op |-> "search_handler", pc |-> "called", fields |-> f, all_rules |-> l,
      out |-> <<>>]
       : f \in UNION {[1..n -> FormFields] : n \in 0..max_fields}, l \in LoadedRules}

\* search_with_rule on a reachable page: the search request is answered
\* with a 2xx status and a body.
RuleCalls(max_nodes) ==
    {[op |-> "search_with_rule", pc |-> "called", rule |-> r,
      site |-> [search |-> Answer(page), detail |-> <<>>], out |-> <<>>]
       : r \in ListRules, page \in MixedPages(max_nodes)}

CallInit ==
    /\ call \in UrlCalls(MaxTail) \cup XpathCalls(MaxXpathLen)
                 \cup SearchCalls(MaxListNodes) \cup EpisodeCalls(MaxRoads)
                 \cup ListCalls(MaxMixedNodes) \cup HandlerCalls(MaxFields)
                 \cup RuleCalls(MaxMixedNodes)
    /\ rules = <<>>
    /\ fetch_episodes = FALSE
    /\ orch = "none"
    /\ idx = 0
    /\ completed = 0
    /\ task = <<>>
    /\ chan = <<>>
    /\ rx = "open"
    /\ delivered = <<>>
    /\ ProcessIdle

NormalizeUrl ==
    /\ call.op = "normalize_url"
    /\ call.pc = "called"
    /\ call' = [call EXCEPT !.pc = "returned",
                            !.out = normalize_url(call.href, call.base_url)]
    /\ UNCHANGED <<StreamVars, ProcessVars>>

\* normalize_xpath, and once more on what it returned.
NormalizeXpath ==
    /\ call.op = "normalize_xpath"
    /\ Len(call.outs) < 2
    /\ call' = [call EXCEPT
                  !.pc = "returned",
                  !.outs = Append(@, normalize_xpath(IF @ = <<>> THEN call.xpath
                                                     ELSE @[Len(@)]))]
    /\ UNCHANGED <<StreamVars, ProcessVars>>

\* execute_search_with_episodes, engine.rs:62 (the search and its "?").
ExecuteSearch ==
    /\ call.op = "execute_search_with_episodes"
    /\ call.pc = "called"
    /\ LET found == execute_search(call.rule, call.site) IN
       call' = IF found.ok
               THEN [call EXCEPT !.pc = "episodes", !.items = found.val, !.k = 1]
               ELSE [call EXCEPT !.pc = "returned", !.out = found]
    /\ UNCHANGED <<StreamVars, ProcessVars>>

\* Faulty variant: a failed episode fetch ends the search with its error
\* (fetch_episodes(..).await? in place of the match).
FetchEpisodes_aborting ==
    /\ call.op = "execute_search_with_episodes"
    /\ call.pc = "episodes"
    /\ has_chapters(call.rule)
    /\ call.k <= max_items(call.items)
    /\ LET r == fetch_episodes_for(call.rule, call.items[call.k].url,
                                   call.site.detail[call.k])
       IN call' = IF r.ok
                  THEN [call EXCEPT
                          !.requests = Append(@, call.items[call.k].url),
                          !.items[call.k] = with_episodes(call.rule, call.items[call.k],
                                                          call.site.detail[call.k]),
                          !.k = @ + 1]
                  ELSE [call EXCEPT
                          !.requests = Append(@, call.items[call.k].url),
                          !.pc = "returned",
                          !.out = r]
    /\ UNCHANGED <<StreamVars, ProcessVars>>

\* One turn of the loop of engine.rs:69-80: the detail page of item k is
\* requested and awaited before the loop goes on.
FetchEpisodes ==
    /\ call.op = "execute_search_with_episodes"
    /\ call.pc = "episodes"
    /\ has_chapters(call.rule)
    /\ call.k <= max_items(call.items)
    /\ call' = [call EXCEPT
                  !.requests = Append(@, call.items[call.k].url),
                  !.items[call.k] = with_episodes(call.rule, call.items[call.k],
                                                  call.site.detail[call.k]),
                  !.k = @ + 1]
    /\ UNCHANGED <<StreamVars, ProcessVars>>

\* engine.rs:83
ReturnItems ==
    /\ call.op = "execute_search_with_episodes"
    /\ call.pc = "episodes"
    /\ ~has_chapters(call.rule) \/ call.k > max_items(call.items)
    /\ call' = [call EXCEPT !.pc = "returned", !.out = Ok(call.items)]
    /\ UNCHANGED <<StreamVars, ProcessVars>>

ParseEpisodes ==
    /\ call.op = "parse_episodes_xpath"
    /\ call.pc = "called"
    /\ call' = [call EXCEPT
                  !.pc = "returned",
                  !.out = parse_episodes_xpath(call.rule, call.html, call.base_url)]
    /\ UNCHANGED <<StreamVars, ProcessVars>>

ParseSearchResults ==
    /\ call.op = "parse_search_results_xpath"
    /\ call.pc = "called"
    /\ call' = [call EXCEPT
                  !.pc = "returned",
                  !.out = parse_search_results_xpath(call.rule, call.html)]
    /\ UNCHANGED <<StreamVars, ProcessVars>>

SearchHandler ==
    /\ call.op = "search_handler"
    /\ call.pc = "called"
    /\ call' = [call EXCEPT !.pc = "returned",
                            !.out = search_handler(call.fields, call.all_rules)]
    /\ UNCHANGED <<StreamVars, ProcessVars>>

\* engine.rs: search_with_rule
SearchWithRule ==
    /\ call.op = "search_with_rule"
    /\ call.pc = "called"
    /\ call' = [call EXCEPT !.pc = "returned",
                            !.out = search_with_rule(call.rule, call.site)]
    /\ UNCHANGED <<StreamVars, ProcessVars>>

CallNext ==
    \/ SearchHandler
    \/ SearchWithRule
    \/ ParseSearchResults
    \/ ParseEpisodes
    \/ NormalizeUrl
    \/ NormalizeXpath
    \/ ExecuteSearch
    \/ FetchEpisodes
    \/ ReturnItems

CallSpec == CallInit /\ [][CallNext]_vars

(***************************************************************************)
(* The process around the searches: update_rules runs (main.rs at startup  *)
(* with AUTO_UPDATE, and the /update route) and accesses to the rule list. *)
(***************************************************************************)
\* The rules directory the process starts with: empty, one rule, and one
\* rule next to a file that is no Rule.
InitialDirs ==
    {[n \in {"a", "b"} |-> None],
     [n \in {"a", "b"} |-> IF n = "a" THEN Some(Shipped) ELSE None],
     [n \in {"a", "b"} |-> IF n = "a" THEN Some(Shipped) ELSE Some(Junk)]}

\* The index.json the process starts with: none, or one that lists rule
\* "a" with the older or the current stamp.
InitialIndexes ==
    {Unreadable, IndexFile(<<IndexItem("a", Older)>>), IndexFile(<<IndexItem("a", Current)>>)}

ProcessInit(dirs, indexes, remotes) ==
    /\ rules_dir \in dirs
    /\ local_index \in indexes
    /\ remote \in remotes
    /\ RULES = None
    /\ last = NoRun
    /\ call = NoCall
    /\ rules = <<>>
    /\ fetch_episodes = FALSE
    /\ orch = "none"
    /\ idx = 0
    /\ completed = 0
    /\ task = <<>>
    /\ chan = <<>>
    /\ rx = "open"
    /\ delivered = <<>>

UpdateInit == ProcessInit(InitialDirs, InitialIndexes, Indexes(MaxIndex))

\* What a run leaves behind: the UpdateResult it returns, its I/O, the
\* disk it found, and how the run before it ended.
Report(run, fetched) ==
    [ran |-> TRUE,
     fetched |-> fetched,
     result |-> run.result,
     requested |-> run.requested,
     written |-> run.written,
     failed_names |-> run.failed_names,
     index_written |-> run.index_written,
     index_before |-> local_index,
     files_before |-> rules_dir,
     complete |-> fetched /\ run.failed_names = {} /\ run.index_written,
     before |-> [ran |-> last.ran, complete |-> last.complete,
                 failed_names |-> last.failed_names]]

\* The rules of the remote index a run has to download.
Needed(i) == need_update(read_local_index(local_index, remote[i].name), remote[i])

\* updater.rs:115-222, a whole run.  What would happen to a rule that is
\* up to date, or after a failed index fetch, is of no effect and fixed.
UpdateRules ==
    /\ \E fetched \in BOOLEAN, index_saved \in BOOLEAN,
          outcomes \in [1..Len(remote) -> Outcomes] :
         /\ \A i \in 1..Len(remote) : (~fetched \/ ~Needed(i)) => outcomes[i] = "saved"
         /\ ~fetched => index_saved
         /\ LET run == update_rules(rules_dir, local_index, fetched, remote, outcomes,
                                    index_saved)
            IN /\ rules_dir' = run.files
               /\ local_index' = run.local_file
               /\ last' = Report(run, fetched)
    /\ UNCHANGED <<remote, RULES, call, StreamVars>>

UpdateSpec == UpdateInit /\ [][UpdateRules]_vars

\* Faulty variant: the rule files are read again on every access.
get_builtin_rules_reloading ==
    /\ RULES' = Some(load_all_rules(rules_dir))
    /\ UNCHANGED <<rules_dir, local_index, remote, last, call, StreamVars>>

\* rules.rs:15-20: the first access runs load_all_rules, every access
\* returns the list the static holds.
get_builtin_rules ==
    /\ RULES' = IF RULES = None THEN Some(load_all_rules(rules_dir)) ELSE RULES
    /\ UNCHANGED <<rules_dir, local_index, remote, last, call, StreamVars>>

\* Most entries of the remote index while the loader is explored.
MaxLoadIndex == 1

LoadInit == ProcessInit(InitialDirs, {Unreadable}, Indexes(MaxLoadIndex))

LoadNext ==
    \/ UpdateRules
    \/ get_builtin_rules

LoadSpec == LoadInit /\ [][LoadNext]_vars

Returned(op) == call.op = op /\ call.pc = "returned"

(***************************************************************************)
(* C11: when episode fetching is requested and the rule declares both      *)
(* chapter selectors, episode extraction is attempted for at most the      *)
(* first 5 items in list order, one after the other: only items at         *)
(* positions 1..5 can carry episodes, and an item at position 6 or later   *)
(* never does, even when its detail page would yield episodes.  The list   *)
(* the stepwise run returns is the one execute_search_with_episodes gives  *)
(* the stream's tasks.                                                     *)
(***************************************************************************)
C11_EpisodesForFirstFive ==
    call.op = "execute_search_with_episodes" =>
        /\ Len(call.requests) <= 5
        /\ call.pc = "episodes" => Len(call.requests) = call.k - 1
        /\ \A j \in 1..Len(call.requests) : call.requests[j] = call.items[j].url
        /\ \A j \in 1..Len(call.items) :
             is_some(call.items[j].episodes) => j <= 5 /\ j <= Len(call.requests)
        /\ call.pc = "returned" =>
             /\ call.out = execute_search_with_episodes(call.rule, call.site)
             /\ call.out.ok /\ has_chapters(call.rule) =>
                  Len(call.requests) = IF Len(call.items) < 5 THEN Len(call.items) ELSE 5

C11_Witness ==
    /\ Returned("execute_search_with_episodes")
    /\ call.out.ok
    /\ Len(call.out.val) > 5
    /\ is_some(call.out.val[5].episodes)
    /\ call.out.val[6].episodes = None
    /\ fetch_episodes_for(call.rule, call.out.val[6].url, call.site.detail[6]).ok
    /\ fetch_episodes_for(call.rule, call.out.val[6].url, call.site.detail[6]).val # <<>>
    /\ Len(call.requests) = 5


(***************************************************************************)
(* C12 as stated: if exactly one road is emitted by episode extraction     *)
(* its name is absent; if two or more roads are emitted each is labeled.   *)
(***************************************************************************)
Labeled(road) == \E d \in 1..Len(Digits) : road.name = Some(<<"road", Digits[d]>>)

C12_SingleRoadUnnamed ==
    (Returned("parse_episodes_xpath") /\ call.out.ok) =>
        LET roads == call.out.val IN
        /\ Len(roads) = 1 => roads[1].name = None
        /\ Len(roads) >= 2 => \A j \in 1..Len(roads) : Labeled(roads[j])

(***************************************************************************)
(* C13: in episode extraction a road node that yields no valid episode     *)
(* (after entries with an empty name or an empty href are dropped) is      *)
(* absent from the output, the surviving roads keep the document order of  *)
(* their road nodes, and a labeled road whose node is the p-th of all      *)
(* matched road nodes (p counted from 1) is labeled with p.                *)
(***************************************************************************)
ValidEpisode(ep) ==
    trim(ep.content) # <<>> /\ is_some(ep.href) /\ ep.href[1] # <<>>

\* The positions of the road nodes with at least one valid episode, and
\* the j-th smallest of a set of positions.
Surviving(rule, road_nodes) ==
    {p \in 1..Len(road_nodes) :
        /\ "chapter_result" \notin rule.invalid
        /\ \E e \in 1..Len(road_nodes[p]) : ValidEpisode(road_nodes[p][e])}

Nth(positions, j) ==
    CHOOSE p \in positions : Cardinality({q \in positions : q <= p}) = j

C13_EmptyRoadsDropped ==
    (Returned("parse_episodes_xpath") /\ call.out.ok) =>
        LET roads == call.out.val
            road_nodes == call.html.roads
            alive == Surviving(call.rule, road_nodes)
        IN /\ Len(roads) = Cardinality(alive)
           /\ \A j \in 1..Len(roads) :
                LET p == Nth(alive, j)
                    valid == SelectSeq(road_nodes[p], ValidEpisode)
                IN /\ Len(roads[j].episodes) = Len(valid)
                   /\ \A e \in 1..Len(valid) :
                        roads[j].episodes[e].name = trim(valid[e].content)
                   /\ is_some(roads[j].name) =>
                        roads[j].name = Some(<<"road", Digits[p]>>)

C13_Witness ==
    /\ Returned("parse_episodes_xpath")
    /\ call.out.ok
    /\ Len(call.html.roads) = 3
    /\ Surviving(call.rule, call.html.roads) = {2, 3}
    /\ Len(call.out.val) = 2
    /\ call.out.val[1].name = Some(<<"road", "2">>)
    /\ call.out.val[2].name = Some(<<"road", "3">>)

(***************************************************************************)
(* C14: list extraction returns one item per list node in document order:  *)
(* N list nodes that all have a non-empty name and href give exactly N     *)
(* items in document order; a list node whose name or href is empty is     *)
(* excluded and the remaining items keep their relative order.             *)
(***************************************************************************)
NameOf(rule, node) ==
    extract_text_from_node(rule, node, normalize_xpath(rule.search_name))
HrefOf(rule, node) ==
    extract_href_from_node(rule, node, normalize_xpath(rule.search_result))

Usable(rule, nodes) ==
    {p \in 1..Len(nodes) : NameOf(rule, nodes[p]) # <<>> /\ HrefOf(rule, nodes[p]) # <<>>}

C14_ItemPerUsableNode ==
    (Returned("parse_search_results_xpath") /\ call.out.ok) =>
        LET items == call.out.val
            nodes == call.html.list_nodes
            usable == Usable(call.rule, nodes)
        IN /\ Len(items) = Cardinality(usable)
           /\ usable = 1..Len(nodes) => Len(items) = Len(nodes)
           /\ \A j \in 1..Len(items) :
                LET node == nodes[Nth(usable, j)] IN
                /\ items[j].name = NameOf(call.rule, node)
                /\ items[j].url = normalize_url(HrefOf(call.rule, node), call.rule.base_url)
           /\ \A j \in 1..Len(items) : items[j].name # <<>>

C14_Witness ==
    /\ Returned("parse_search_results_xpath")
    /\ call.out.ok
    /\ Len(call.html.list_nodes) = 3
    /\ Usable(call.rule, call.html.list_nodes) = {1, 3}
    /\ Len(call.out.val) = 2
    /\ call.out.val[1].name = <<"A", "1">>
    /\ call.out.val[2].name = <<"A", "3">>
    /\ call.out.val[1].url = Origin(1) \o <<"/", "v", "/", "1">>

(***************************************************************************)
(* C15: normalize_url(href, base) follows the four-case policy: an href    *)
(* starting with http:// or https:// is returned unchanged; one starting   *)
(* with // is returned prefixed with https:; one starting with a single /  *)
(* is base with its trailing slashes stripped followed by href; any other  *)
(* href is base with its trailing slashes stripped, then /, then href.     *)
(***************************************************************************)
\* base without its trailing slashes: the prefix that does not end in "/"
\* and is followed by slashes only.
Stripped(base) ==
    LET n == CHOOSE n \in 0..Len(base) :
                 /\ n = 0 \/ base[n] # "/"
                 /\ \A m \in (n + 1)..Len(base) : base[m] = "/"
    IN SubSeq(base, 1, n)

IsAbsolute(url) == starts_with(url, HttpPrefix) \/ starts_with(url, HttpsPrefix)

C15_FourCasePolicy ==
    Returned("normalize_url") =>
        LET href == call.href
            base == call.base_url
        IN CASE IsAbsolute(href) -> call.out = href
             [] ~IsAbsolute(href) /\ starts_with(href, <<"/", "/">>) ->
                    call.out = HttpsColon \o href
             [] ~starts_with(href, <<"/", "/">>) /\ starts_with(href, <<"/">>) ->
                    call.out = Stripped(base) \o href
             [] OTHER -> call.out = Stripped(base) \o <<"/">> \o href

C15_Witness ==
    /\ Returned("normalize_url")
    /\ call.href = <<"/", "v">>
    /\ call.base_url = Origin(1) \o <<"/", "/">>
    /\ call.out = Origin(1) \o <<"/", "v">>

(***************************************************************************)
(* C16 as stated: for all href, normalize_url(href, base) yields a URL     *)
(* beginning with http:// or https://, so every SearchResultItem.url and   *)
(* every Episode.url emitted is absolute.                                  *)
(***************************************************************************)
ItemUrls(items) == {items[j].url : j \in 1..Len(items)}
EpisodeUrls(roads) ==
    UNION {ItemUrls(roads[r].episodes) : r \in 1..Len(roads)}

\* The URLs the call under check has produced.
UrlsOut ==
    IF Returned("normalize_url") THEN {call.out}
    ELSE IF Returned("parse_search_results_xpath") /\ call.out.ok
    THEN ItemUrls(call.out.val)
    ELSE IF Returned("parse_episodes_xpath") /\ call.out.ok
    THEN EpisodeUrls(call.out.val)
    ELSE {}

C16_AlwaysAbsolute == \A url \in UrlsOut : IsAbsolute(url)

(***************************************************************************)
(* C16, amended: for all href, normalize_url(href, base) yields a URL      *)
(* beginning with http:// or https:// provided base, with its trailing     *)
(* slashes removed, begins with http:// or https:// itself; so every       *)
(* SearchResultItem.url and every Episode.url emitted under a rule with    *)
(* such a base_url is absolute.                                            *)
(***************************************************************************)
BaseOfCall == IF call.op = "normalize_url" THEN call.base_url ELSE call.rule.base_url

C16_AbsoluteOnAbsoluteBase ==
    \A url \in UrlsOut : IsAbsolute(Stripped(BaseOfCall)) => IsAbsolute(url)

C16_Witness ==
    /\ Returned("parse_episodes_xpath")
    /\ call.rule = Rule(2)
    /\ call.base_url = HttpPrefix
    /\ call.out.ok
    /\ Origin(2) \o <<"/", "p", "1">> \in EpisodeUrls(call.out.val)

(***************************************************************************)
(* C17: normalize_xpath is idempotent on every non-empty selector: what    *)
(* it returns for its own result is that result.                           *)
(***************************************************************************)
C17_Idempotent ==
    (call.op = "normalize_xpath" /\ call.xpath # <<>> /\ Len(call.outs) = 2) =>
        call.outs[2] = call.outs[1]

C17_Witness ==
    /\ call.op = "normalize_xpath"
    /\ call.xpath = <<" ", ".", "/", "a">>
    /\ call.outs = << <<".", "/", "a">>, <<".", "/", "a">> >>

(***************************************************************************)
(* C18 as stated: normalize_xpath leaves a selector that starts with a     *)
(* single / unchanged, passes selectors starting with //, ./ or .//        *)
(* through unchanged, and prefixes any other non-empty selector with .//.  *)
(***************************************************************************)
HasForm(s) ==
    starts_with(s, <<"/", "/">>) \/ starts_with(s, <<".", "/">>)
    \/ starts_with(s, <<".", "/", "/">>)

C18_RootedUnchanged ==
    Returned("normalize_xpath") =>
        LET s == call.xpath
            out == call.outs[1]
        IN /\ starts_with(s, <<"/">>) /\ ~starts_with(s, <<"/", "/">>) => out = s
           /\ HasForm(s) => out = s
           /\ (s # <<>> /\ ~HasForm(s) /\ ~starts_with(s, <<"/">>)) =>
                  out = <<".", "/", "/">> \o s

(***************************************************************************)
(* C18, amended: normalize_xpath first trims surrounding whitespace; the   *)
(* trimmed selector is returned as it is when it starts with //, ./ or     *)
(* .//, gets one more / in front when it starts with a single / (so it     *)
(* starts with // afterwards), is prefixed with .// when it is any other   *)
(* non-empty string, and stays empty when it is empty.                     *)
(***************************************************************************)
C18_SelectorForms ==
    Returned("normalize_xpath") =>
        LET s == trim(call.xpath)
            out == call.outs[1]
        IN /\ HasForm(s) => out = s
           /\ starts_with(s, <<"/">>) /\ ~starts_with(s, <<"/", "/">>) =>
                  out = <<"/">> \o s
           /\ (s # <<>> /\ ~HasForm(s) /\ ~starts_with(s, <<"/">>)) =>
                  out = <<".", "/", "/">> \o s
           /\ s = <<>> => out = <<>>

C18_Witness ==
    /\ Returned("normalize_xpath")
    /\ call.xpath = <<"/", "a">>
    /\ call.outs[1] = <<"/", "/", "a">>

(***************************************************************************)
(* C19: the search handler never starts a stream for invalid input: a      *)
(* request with a missing or empty keyword, a missing or empty rules       *)
(* field, or a rules field that matches no loaded rule is answered with an *)
(* error response and no stream, so every stream that starts has a         *)
(* non-empty keyword and total >= 1.                                       *)
(***************************************************************************)
\* The text of the last readable field of that name, if there is one.
LastText(fields, name) ==
    LET at == {i \in 1..Len(fields) : fields[i].name = name /\ fields[i].text.ok} IN
    IF at = {} THEN None
    ELSE Some(fields[CHOOSE i \in at : \A j \in at : j <= i].text.val)

MissingOrEmpty(text) == text = None \/ \A i \in 1..Len(text[1]) : text[1][i] = " "

\* name stands in the text between two commas (or the text's ends) with
\* nothing but spaces around it.
Names(text, name) ==
    \E i \in 1..Len(text) :
        /\ text[i] = name
        /\ \A m \in 1..(i - 1) :
             (\A q \in m..(i - 1) : text[q] # ",") => text[m] = " "
        /\ \A m \in (i + 1)..Len(text) :
             (\A q \in (i + 1)..m : text[q] # ",") => text[m] = " "

InvalidInput(fields, all_rules) ==
    LET keyword == LastText(fields, "anime")
        names == LastText(fields, "rules")
    IN \/ MissingOrEmpty(keyword)
       \/ MissingOrEmpty(names)
       \/ \A r \in 1..Len(all_rules) : ~Names(names[1], all_rules[r].name)

C19_NoStreamForInvalidInput ==
    Returned("search_handler") =>
        /\ InvalidInput(call.fields, call.all_rules) =>
             call.out.status = 400 /\ call.out.stream = None
        /\ is_some(call.out.stream) =>
             /\ call.out.stream[1].keyword # <<>>
             /\ Len(call.out.stream[1].rules) >= 1
             /\ \A r \in 1..Len(call.out.stream[1].rules) :
                  \E l \in 1..Len(call.all_rules) :
                      call.out.stream[1].rules[r] = call.all_rules[l]

C19_Witness ==
    /\ Returned("search_handler")
    /\ call.fields = <<Field("rules", Ok(<<"rule2", ",", " ", "rule1">>)),
                       Field("episodes", Ok(<<" ", "TRUE">>)),
                       Field("anime", Ok(<<" ", "k", " ">>))>>
    /\ call.out.status = 200
    /\ call.out.stream = Some([keyword |-> <<"k">>, rules |-> <<Rule(1), Rule(2)>>,
                               fetch_episodes |-> TRUE])

(***************************************************************************)
(* C20: the completed counter is incremented exactly once per task that    *)
(* has passed its fetch-and-add, and no update is lost: the completed      *)
(* values the tasks took, and those the per-rule events of the stream      *)
(* carry, are pairwise distinct, and when every task has finished they are *)
(* exactly 1..total.                                                       *)
(***************************************************************************)
Counted(i) == task[i].pc \in {"send", "finished"}
CompletedOf(p) == Emitted[p].json.progress.completed

C20_NoLostUpdate ==
    /\ completed = Cardinality({i \in Tasks : Counted(i)})
    /\ \A i, j \in Tasks :
         (Counted(i) /\ Counted(j) /\ i # j) => task[i].current # task[j].current
    /\ \A p, q \in RuleLines : p # q => CompletedOf(p) # CompletedOf(q)
    /\ (\A i \in Tasks : task[i].pc = "finished") =>
         /\ {task[i].current : i \in Tasks} = 1..total
         /\ rx # "dropped" => {CompletedOf(p) : p \in RuleLines} = 1..total

C20_Witness ==
    /\ orch = "finished"
    /\ total = MaxRules
    /\ rx = "ended"
    /\ completed = total
    /\ {CompletedOf(p) : p \in RuleLines} = 1..total
    /\ \E p, q \in RuleLines : p < q /\ CompletedOf(p) > CompletedOf(q)

(***************************************************************************)
(* C21 as stated: a per-rule task never waits because the bounded channel  *)
(* is full while the receiver is still alive.                              *)
(***************************************************************************)
WaitsOnFullChannel(i) ==
    task[i].pc = "send" /\ rx = "open" /\ Len(chan) >= ChanCap

ReturnedEarly ==
    /\ orch = "returned"
    /\ \A i \in Tasks : task[i].pc = "unspawned" /\ task[i].answered = NoAnswer
    /\ completed = 0
    /\ Emitted = <<>>

C27_ReturnsAtOnce ==
    /\ [][(orch = "init" /\ rx # "open" /\ orch' # "init") => ReturnedEarly']_vars
    /\ [][orch = "returned" => UNCHANGED vars]_vars
    /\ [](orch = "returned" => ReturnedEarly)

C27_Witness ==
    /\ ReturnedEarly
    /\ total = MaxRules
    /\ rx = "dropped"

(***************************************************************************)
(* C23: a slow rule delays only its own event.  Whatever the other tasks   *)
(* are doing, a task whose search has returned can take its counter value  *)
(* at once and can publish its event as soon as the channel takes a line   *)
(* (it has room, or the receiver is gone); only Done waits for every task. *)
(***************************************************************************)
DoneSent == orch = "finished"

C23_SlowRuleDelaysOnlyItself ==
    /\ \A i \in Tasks :
         /\ task[i].pc = "count" => ENABLED Count(i)
         /\ (task[i].pc = "send" /\ CanSend) => ENABLED Send(i)
    /\ DoneSent => \A i \in Tasks : task[i].pc = "finished"

\* The first rule's search has not returned while the event of the second
\* rule has reached the consumer, and Done has not been sent.
C23_Witness ==
    /\ total = MaxRules
    /\ task[1].pc = "search"
    /\ task[2].pc = "finished"
    /\ \E p \in DOMAIN delivered :
         IsRuleEvent(delivered[p]) /\ delivered[p].json.progress.completed = task[2].current
    /\ ~DoneSent

(***************************************************************************)
(* C24 as stated: a selector of the rule that the evaluator rejects,       *)
(* evaluated against a page that was fetched and parsed, gives the rule's  *)
(* result an error string and no items.                                    *)
(***************************************************************************)
OnParsedPage ==
    Returned("search_with_rule") /\ call.site.search.text.val.parses

C24_InvalidSelectorIsError ==
    (OnParsedPage /\ call.rule.invalid # {}) =>
        /\ is_some(call.out.error)
        /\ call.out.items = <<>>

(***************************************************************************)
(* C24, amended: the search always returns a PlatformSearchResult.  A      *)
(* rejected list selector gives it the error string and no items.  A       *)
(* rejected name selector is no error: each list node is named by its own  *)
(* text.  A rejected result selector is no error either: no node has an    *)
(* href, so the result is an empty success.                                *)
(***************************************************************************)
OwnText(nodes) ==
    LET named == {p \in 1..Len(nodes) :
                    trim(nodes[p].content) # <<>>
                    /\ HrefOf(call.rule, nodes[p]) # <<>>}
    IN [j \in 1..Cardinality(named) |-> trim(nodes[Nth(named, j)].content)]

C24_OnlyListSelectorFails ==
    OnParsedPage =>
        LET out == call.out
            nodes == call.site.search.text.val.list_nodes
        IN /\ is_some(out.error) => out.items = <<>> /\ out.count = 0
           /\ out.count = Len(out.items)
           /\ "search_list" \in call.rule.invalid =>
                /\ is_some(out.error)
                /\ out.error[1][1] = "invalid list XPath"
           /\ "search_name" \in call.rule.invalid =>
                /\ out.error = None
                /\ [j \in 1..Len(out.items) |-> out.items[j].name] = OwnText(nodes)
           /\ "search_result" \in call.rule.invalid =>
                /\ out.error = None
                /\ out.items = <<>>

\* The rejected name selector on a page whose list nodes all yield an item.
C24_Witness ==
    /\ OnParsedPage
    /\ "search_name" \in call.rule.invalid
    /\ call.out.error = None
    /\ Len(call.out.items) = MaxMixedNodes

(***************************************************************************)
(* C25: a failure to fetch or extract the episodes of one item is          *)
(* swallowed.  The search still succeeds with every item of the list, each *)
(* with the name and url the list extraction gave it; an item whose        *)
(* episode fetch failed carries no episodes; and the detail page of every  *)
(* item within the cap is requested, whatever happened to the items before *)
(* it.                                                                     *)
(***************************************************************************)
EpisodesFailed(k) ==
    ~fetch_episodes_for(call.rule, execute_search(call.rule, call.site).val[k].url,
                        call.site.detail[k]).ok

C25_EpisodeFailureSwallowed ==
    (/\ Returned("execute_search_with_episodes")
     /\ execute_search(call.rule, call.site).ok
     /\ has_chapters(call.rule)) =>
        LET found == execute_search(call.rule, call.site).val
            cap == Min(MaxEpisodeItems, Len(found))
        IN /\ call.out.ok
           /\ Len(call.out.val) = Len(found)
           /\ \A k \in 1..Len(found) :
                /\ call.out.val[k].name = found[k].name
                /\ call.out.val[k].url = found[k].url
                /\ (k <= cap /\ EpisodesFailed(k)) => call.out.val[k].episodes = None
           /\ call.requests = [k \in 1..cap |-> found[k].url]

\* The fetch of one item failed and a later item within the cap got its
\* episodes.
C25_Witness ==
    /\ Returned("execute_search_with_episodes")
    /\ call.out.ok
    /\ has_chapters(call.rule)
    /\ \E k \in 1..MaxEpisodeItems, j \in 1..MaxEpisodeItems :
         /\ k < j
         /\ j <= Len(call.out.val)
         /\ EpisodesFailed(k)
         /\ call.out.val[k].episodes = None
         /\ is_some(call.out.val[j].episodes)

(***************************************************************************)
(* C22: a panic inside one per-rule task does not prevent Done.  A         *)
(* panicked task counts as finished for the join and has emitted nothing   *)
(* and counted nothing; every task that did not panic still has exactly    *)
(* one event on the stream when the orchestrator has finished; the         *)
(* orchestrator is never ended by a task's panic; and once the Init send   *)
(* has succeeded the Done send is eventually performed and Done reaches    *)
(* the consumer unless it drops the stream.                                *)
(***************************************************************************)
Panicked(i) == task[i].pc = "panicked"

C22_PanicDoesNotPreventDone ==
    /\ [](\A i \in Tasks : Panicked(i) => task[i].current = 0 /\ LinesOf(i) = {})
    /\ [](completed + Cardinality({i \in Tasks : Panicked(i)}) <= total)
    /\ []((orch = "finished" /\ rx # "dropped") =>
            /\ IsDone(Last(Emitted))
            /\ \A i \in Tasks : ~Panicked(i) => Cardinality(LinesOf(i)) = 1
            /\ Cardinality(RuleLines) = total - Cardinality({i \in Tasks : Panicked(i)}))
    /\ [][orch' = "returned" => orch \in {"init", "returned"}]_vars
    /\ <>(\/ orch = "returned"
          \/ /\ orch = "finished"
             /\ rx = "dropped" \/ (delivered # <<>> /\ IsDone(Last(delivered))))

C22_Witness ==
    /\ total = MaxRules
    /\ orch = "finished"
    /\ Panicked(1)
    /\ task[2].pc = "finished"
    /\ Len(delivered) = 3
    /\ IsRuleEvent(delivered[2])
    /\ IsDone(Last(delivered))

(***************************************************************************)
(* C26: the rule set is immutable for the process lifetime.  Once the      *)
(* static has been loaded no step changes it, whatever update_rules runs   *)
(* write to the rules directory, so every access returns the same list.    *)
(***************************************************************************)
C26_LoadedRulesNeverChange == [][RULES # None => RULES' = RULES]_vars

\* The list is loaded and a later run has rewritten the directory, which
\* would now load differently.
C26_Witness ==
    /\ RULES # None
    /\ last.ran /\ last.written # <<>>
    /\ load_all_rules(rules_dir) # RULES[1]
    /\ load_all_rules(last.files_before) = RULES[1]

(***************************************************************************)
(* C28 as stated: after a run in which every needed download and save      *)
(* succeeded and the local index was saved, the next run against the same  *)
(* remote index downloads nothing, writes no rule file, reports added =    *)
(* updated = failed = 0 and leaves the local index as it was.              *)
(***************************************************************************)
Quiet ==
    /\ last.requested = <<>>
    /\ last.written = <<>>
    /\ rules_dir = last.files_before
    /\ last.result.added = 0 /\ last.result.updated = 0 /\ last.result.failed = 0
    /\ local_index = last.index_before

C28_Idempotent == (last.ran /\ last.before.complete) => Quiet

(***************************************************************************)
(* C28, amended: the same, for a remote index that lists every rule name   *)
(* once.                                                                   *)
(***************************************************************************)
DistinctNames(index) ==
    \A p, q \in DOMAIN index : index[p].name = index[q].name => p = q

C28_IdempotentOnDistinctNames ==
    (last.ran /\ last.before.complete /\ DistinctNames(remote)) => Quiet

\* The second run found the index that a complete run left after it had
\* downloaded every rule of the remote index.
C28_Witness ==
    /\ last.ran /\ last.fetched /\ last.before.complete
    /\ Len(remote) = MaxIndex /\ DistinctNames(remote)
    /\ \A i \in DOMAIN remote : rules_dir[remote[i].name] = Some(Downloaded)
    /\ local_index = IndexFile(remote)
    /\ Quiet

(***************************************************************************)
(* C29 as stated: after a run, the local index holds for every rule whose  *)
(* download or save failed its previous entry or no entry, never the       *)
(* remote entry, and a following run against the same remote index         *)
(* requests the download of that rule again.                               *)
(***************************************************************************)
Entry(file, name) == read_local_index(file, name)

FailedRulesRetried ==
    /\ (last.ran /\ last.fetched) =>
         \A i \in DOMAIN remote :
            remote[i].name \in last.failed_names =>
               /\ Entry(local_index, remote[i].name)
                     \in {None, Entry(last.index_before, remote[i].name)}
               /\ Entry(local_index, remote[i].name) # Some(remote[i])
               /\ need_update(Entry(local_index, remote[i].name), remote[i])
    /\ (last.ran /\ last.fetched) =>
         \A name \in last.before.failed_names :
            \E k \in DOMAIN last.requested : last.requested[k] = name

C29_FailedRuleRetried == FailedRulesRetried

(***************************************************************************)
(* C29, amended: the same, for a remote index that lists every rule name   *)
(* once.                                                                   *)
(***************************************************************************)
C29_FailedRuleRetriedOnDistinctNames == DistinctNames(remote) => FailedRulesRetried

\* Rule "a" failed in the run before, was requested again and failed
\* again, and the index still holds the entry it had for it.
C29_Witness ==
    /\ last.ran /\ last.fetched /\ DistinctNames(remote)
    /\ Len(remote) = MaxIndex
    /\ "a" \in last.before.failed_names
    /\ \E k \in DOMAIN last.requested : last.requested[k] = "a"
    /\ "a" \in last.failed_names
    /\ is_some(Entry(local_index, "a"))
    /\ Entry(local_index, "a") = Entry(last.index_before, "a")

(***************************************************************************)
(* C30: when the remote index cannot be fetched the run changes nothing on *)
(* disk, neither a rule file nor index.json, and its result has total = 0, *)
(* added = 0, updated = 0 and the single detail entry "failed" for the     *)
(* index.                                                                  *)
(***************************************************************************)
C30_FailedFetchChangesNothing ==
    (last.ran /\ ~last.fetched) =>
        /\ rules_dir = last.files_before
        /\ local_index = last.index_before
        /\ last.written = <<>>
        /\ ~last.index_written
        /\ last.requested = <<>>
        /\ last.result.total = 0 /\ last.result.added = 0 /\ last.result.updated = 0
        /\ last.result.details = <<[name |-> "index", action |-> "failed"]>>

\* The fetch failed in a run that had a rule to download.
C30_Witness ==
    /\ last.ran /\ ~last.fetched
    /\ remote # <<>>
    /\ \E i \in DOMAIN remote : Needed(i)
    /\ local_index # Unreadable

====
